---- MODULE Spec2Model ----
(***************************************************************************)
(* Pranamesh AQI dashboard: the dual-store write path                      *)
(* (firestore-aqi-service.ts), the admin submission flow (AQIDataEntry),   *)
(* the validation / history HTTP handlers (api/firebase/route.ts) and the  *)
(* aqi.in scraper, as state machines.                                      *)
(*                                                                         *)
(* Time is counted in whole seconds in the write path (the code's timers   *)
(* are 10000 ms and 15000 ms).  A pending timer fires when the clock       *)
(* reaches its deadline: the clock does not move past a due timer.  A      *)
(* store operation settles at any time, also after the race it took part   *)
(* in was decided by the timer.                                            *)
(***************************************************************************)
EXTENDS Integers, Sequences, FiniteSets, TLC

----------------------------------------------------------------------------
(* JavaScript values that reach the handlers.                              *)

Num(n) == [k |-> "number", v |-> n]
NaNv == [k |-> "nan", v |-> 0]            \* typeof NaN === 'number'
Undef == [k |-> "undefined", v |-> 0]
Str(s) == [k |-> "string", v |-> s]
Null == [k |-> "null", v |-> 0]

IsNumber(x) == x.k \in {"number", "nan"}  \* typeof x === 'number'

----------------------------------------------------------------------------
(* Program constants (seconds).                                            *)

FIRESTORE_TIMEOUT == 10
RTDB_TIMEOUT == 10
UI_TIMEOUT == 15

(* Bounds of the model.                                                    *)
MaxTime == 21

----------------------------------------------------------------------------
VARIABLES
    env,              \* process.env: which NEXT_PUBLIC_FIREBASE_* are set, and typeof window
    now,              \* Date.now(), seconds
    pc,               \* per saveAQIReading call: idle | addDoc | sync | done
    reading,          \* per call: the reading passed to saveAQIReading
    addDocOp,         \* per call: the addDoc promise: none | pending | resolved | rejected
    addDocCount,      \* per call: number of addDoc calls issued
    setOp,            \* per call: the set() promise: none | pending | resolved | rejected
    setCount,         \* per call: number of set() calls issued
    durableDeadline,  \* per call: when the Firestore timeoutPromise rejects
    syncDeadline,     \* per call: when the Realtime Database timeoutPromise rejects
    docRef,           \* per call: id of the DocumentReference addDoc resolved with
    result,           \* per call: the FirestoreResult returned
    readingsCol,      \* Firestore collection 'readings'
    rtdb,             \* Realtime Database node 'stations'
    nextId,           \* next auto-generated document id
    outcome,          \* per call (history): how the addDoc race and the set race ended
    stationDocs,      \* Firestore collection 'stations'
    metaPc,           \* per saveStationMetadata call: idle | getDoc | setDoc | done
    metaArg,          \* per saveStationMetadata call: station id, now, createdAt
    metaResult,       \* per saveStationMetadata call: the FirestoreResult returned
    uiPc,             \* AQIDataEntry.handleSubmit: idle | meta | race | done
    uiForm,           \* formData / isNewStation of the submission in progress
    uiDeadline,       \* when the 15 s timeoutPromise of handleSubmit rejects
    uiResult,         \* the SubmissionResult shown (setResult)
    batch,            \* batchUpdateRealtimeDB: the updates argument
    batchPc,          \* batchUpdateRealtimeDB: idle | awaiting | done
    updOp,            \* per batch item: the update() promise: none | pending | resolved | rejected
    batchResult,      \* batchUpdateRealtimeDB: the FirestoreResult returned
    postReq,          \* POST /api/firebase: the request handled last
    postResp,         \* POST /api/firebase: its response
    histReq,          \* GET (historical): the request handled last
    histResp,         \* GET (historical): its response
    histCalls         \* GET (historical): calls of getHistoricalData made for it

callVars == <<pc, reading, addDocOp, addDocCount, setOp, setCount,
              durableDeadline, syncDeadline, docRef, result, outcome>>
syncVars == <<env, now, callVars, readingsCol, rtdb, nextId>>

Calls == {"c1", "c2"}
StationIds == {"", "s1", "s2", "s3"}   \* keys of the 'stations' node
WriteStationIds == {"", "s1"}         \* station ids handed to the write path

Envs == [apiKey : BOOLEAN, projectId : BOOLEAN, databaseURL : BOOLEAN, window : BOOLEAN]
FullEnv == [apiKey |-> TRUE, projectId |-> TRUE, databaseURL |-> TRUE, window |-> TRUE]

isFirebaseConfigured == env.apiKey /\ env.projectId
isRealtimeDatabaseConfigured == env.apiKey /\ env.databaseURL
\* getFirebaseApp / getFirebaseFirestore: null on the server or without apiKey / projectId
getFirebaseFirestore == env.window /\ env.apiKey /\ env.projectId

NoReading == [stationId |-> "", aqi |-> Undef, pm25 |-> Undef, pm10 |-> Undef,
              timestamp |-> 0, source |-> "", metadata |-> "undefined"]
NoResult == [settled |-> FALSE, success |-> FALSE, id |-> 0, error |-> ""]
Success(id) == [settled |-> TRUE, success |-> TRUE, id |-> id, error |-> ""]
Failure(msg) == [settled |-> TRUE, success |-> FALSE, id |-> 0, error |-> msg]
NoEntry == [present |-> FALSE, aqi |-> Undef, pm25 |-> Undef, pm10 |-> Undef,
            lastUpdated |-> 0, source |-> ""]

SyncInit ==
    /\ now = 0
    /\ pc = [c \in Calls |-> "idle"]
    /\ reading = [c \in Calls |-> NoReading]
    /\ addDocOp = [c \in Calls |-> "none"]
    /\ addDocCount = [c \in Calls |-> 0]
    /\ setOp = [c \in Calls |-> "none"]
    /\ setCount = [c \in Calls |-> 0]
    /\ durableDeadline = [c \in Calls |-> 0]
    /\ syncDeadline = [c \in Calls |-> 0]
    /\ docRef = [c \in Calls |-> 0]
    /\ result = [c \in Calls |-> NoResult]
    /\ readingsCol = {}
    /\ rtdb = [s \in StationIds |-> NoEntry]
    /\ nextId = 1
    /\ outcome = [c \in Calls |-> [durable |-> "", live |-> ""]]

----------------------------------------------------------------------------
(* saveAQIReading                                                          *)

\* a variant: metadata is copied whenever it is set, empty or not
docDataKeepsEmptyMetadata(r) ==
    [stationId |-> r.stationId, aqi |-> r.aqi, pm25 |-> r.pm25, pm10 |-> r.pm10,
     timestamp |-> r.timestamp, source |-> r.source,
     hasMetadata |-> (r.metadata # "undefined")]

\* docData: metadata only when it exists and has keys
docData(r) ==
    [stationId |-> r.stationId, aqi |-> r.aqi, pm25 |-> r.pm25, pm10 |-> r.pm10,
     timestamp |-> r.timestamp, source |-> r.source,
     hasMetadata |-> (r.metadata = "notes")]

dataToSync(r) ==
    [present |-> TRUE, aqi |-> r.aqi, pm25 |-> r.pm25, pm10 |-> r.pm10,
     lastUpdated |-> r.timestamp, source |-> r.source]

\* set(ref(database, `stations/${stationId}`), data): an empty stationId names the
\* 'stations' node itself, whose children the write replaces.
rtdbSet(db, sid, data) ==
    IF sid = "" THEN [s \in StationIds |-> IF s = "" THEN data ELSE NoEntry]
    ELSE [db EXCEPT ![sid] = data]

\* The synchronous part of saveAQIReading(reading), up to its first await.
saveAQIReading(c, r) ==
    /\ reading' = [reading EXCEPT ![c] = r]
    /\ IF ~isFirebaseConfigured
       THEN /\ result' = [result EXCEPT ![c] = Failure("Firebase not configured")]
            /\ pc' = [pc EXCEPT ![c] = "done"]
            /\ UNCHANGED <<addDocOp, addDocCount, durableDeadline, outcome>>
       ELSE IF ~getFirebaseFirestore
       THEN /\ result' = [result EXCEPT ![c] = Failure("Firestore not available")]
            /\ pc' = [pc EXCEPT ![c] = "done"]
            /\ UNCHANGED <<addDocOp, addDocCount, durableDeadline, outcome>>
       ELSE \/ \* addDoc(readingsRef, docData) is issued and raced against the timer
               /\ addDocOp' = [addDocOp EXCEPT ![c] = "pending"]
               /\ addDocCount' = [addDocCount EXCEPT ![c] = @ + 1]
               /\ durableDeadline' = [durableDeadline EXCEPT ![c] = now + FIRESTORE_TIMEOUT]
               /\ pc' = [pc EXCEPT ![c] = "addDoc"]
               /\ UNCHANGED <<result, outcome>>
            \/ \* addDoc throws synchronously (data the SDK refuses): caught
               /\ addDocCount' = [addDocCount EXCEPT ![c] = @ + 1]
               /\ result' = [result EXCEPT ![c] = Failure("FirebaseError")]
               /\ pc' = [pc EXCEPT ![c] = "done"]
               /\ outcome' = [outcome EXCEPT ![c].durable = "threw"]
               /\ UNCHANGED <<addDocOp, durableDeadline>>

\* return { success: true, data: savedReading }
returnSaved(c, id) ==
    /\ result' = [result EXCEPT ![c] = Success(id)]
    /\ pc' = [pc EXCEPT ![c] = "done"]

\* catch (error) of saveAQIReading: return { success: false, error: String(error) }
saveCatch(c, msg) ==
    /\ result' = [result EXCEPT ![c] = Failure(msg)]
    /\ pc' = [pc EXCEPT ![c] = "done"]

\* catch (error) of syncToRealtimeDatabase: warn, do not throw; saveAQIReading goes on
syncCatchRethrows(c, id) == saveCatch(c, "Realtime Database sync failed")
syncCatch(c, id) == returnSaved(c, id)

\* syncToRealtimeDatabase(stationId, reading), up to its await.  It returns at once
\* when the database is not configured or unavailable, or when ref() / set() throws
\* inside its try block.
syncToRealtimeDatabase(c) ==
    IF ~isRealtimeDatabaseConfigured
    THEN /\ returnSaved(c, nextId)
         /\ outcome' = [outcome EXCEPT ![c] = [durable |-> "resolved", live |-> "skipped"]]
         /\ UNCHANGED <<setOp, setCount, syncDeadline>>
    ELSE \/ \* getFirebaseDatabase() returned null
            /\ returnSaved(c, nextId)
            /\ outcome' = [outcome EXCEPT ![c] = [durable |-> "resolved", live |-> "skipped"]]
            /\ UNCHANGED <<setOp, setCount, syncDeadline>>
         \/ \* ref() or set() threw synchronously inside the try block
            /\ syncCatch(c, nextId)
            /\ outcome' = [outcome EXCEPT ![c] = [durable |-> "resolved", live |-> "threw"]]
            /\ setCount' = [setCount EXCEPT ![c] = @ + 1]
            /\ UNCHANGED <<setOp, syncDeadline>>
         \/ \* set(stationRef, dataToSync) issued and raced against the timer
            /\ setOp' = [setOp EXCEPT ![c] = "pending"]
            /\ setCount' = [setCount EXCEPT ![c] = @ + 1]
            /\ syncDeadline' = [syncDeadline EXCEPT ![c] = now + RTDB_TIMEOUT]
            /\ pc' = [pc EXCEPT ![c] = "sync"]
            /\ outcome' = [outcome EXCEPT ![c].durable = "resolved"]
            /\ UNCHANGED result

\* a variant: the live-store write follows addDoc whenever it resolves, also after
\* the call gave up on it
afterAddDocSyncsLate(c) ==
    /\ docRef' = [docRef EXCEPT ![c] = nextId]
    /\ IF pc[c] = "addDoc"
       THEN syncToRealtimeDatabase(c)
       ELSE /\ setOp' = [setOp EXCEPT ![c] = "pending"]
            /\ setCount' = [setCount EXCEPT ![c] = @ + 1]
            /\ syncDeadline' = [syncDeadline EXCEPT ![c] = now + RTDB_TIMEOUT]
            /\ UNCHANGED <<result, pc, outcome>>

\* What the awaiting saveAQIReading does when addDoc wins the race (lines 204-216).
\* A call that already returned (the timer won) ignores the late settlement.
afterAddDoc(c) ==
    IF pc[c] = "addDoc"
    THEN /\ docRef' = [docRef EXCEPT ![c] = nextId]
         /\ syncToRealtimeDatabase(c)
    ELSE UNCHANGED <<docRef, result, pc, setOp, setCount, syncDeadline, outcome>>

\* Firestore commits the document and addDoc resolves with its reference.
AddDocResolve(c) ==
    /\ addDocOp[c] = "pending"
    /\ addDocOp' = [addDocOp EXCEPT ![c] = "resolved"]
    /\ readingsCol' = readingsCol \cup {[id |-> nextId, call |-> c, doc |-> docData(reading[c])]}
    /\ nextId' = nextId + 1
    /\ afterAddDoc(c)
    /\ UNCHANGED <<env, now, reading, addDocCount, durableDeadline, rtdb>>

\* addDoc rejects (permission denied, network error): nothing is stored.
AddDocReject(c) ==
    /\ addDocOp[c] = "pending"
    /\ addDocOp' = [addDocOp EXCEPT ![c] = "rejected"]
    /\ IF pc[c] = "addDoc"
       THEN /\ saveCatch(c, "FirebaseError")
            /\ outcome' = [outcome EXCEPT ![c].durable = "rejected"]
       ELSE UNCHANGED <<result, pc, outcome>>
    /\ UNCHANGED <<env, now, reading, addDocCount, setOp, setCount, durableDeadline,
                   syncDeadline, docRef, readingsCol, rtdb, nextId>>

\* a variant: the timed-out addDoc is issued again instead of failing the call
DurableTimeoutRetries(c) ==
    /\ pc[c] = "addDoc"
    /\ now >= durableDeadline[c]
    /\ addDocCount[c] < 3
    /\ addDocCount' = [addDocCount EXCEPT ![c] = @ + 1]
    /\ durableDeadline' = [durableDeadline EXCEPT ![c] = now + FIRESTORE_TIMEOUT]
    /\ UNCHANGED <<env, now, reading, addDocOp, setOp, setCount, pc, result, outcome,
                   syncDeadline, docRef, readingsCol, rtdb, nextId>>

\* The Firestore timeoutPromise rejects first: the race throws into the catch.
DurableTimeout(c) ==
    /\ pc[c] = "addDoc"
    /\ now >= durableDeadline[c]
    /\ saveCatch(c, "Firestore operation timed out after 10000ms")
    /\ outcome' = [outcome EXCEPT ![c].durable = "timeout"]
    /\ UNCHANGED <<env, now, reading, addDocOp, addDocCount, setOp, setCount,
                   durableDeadline, syncDeadline, docRef, readingsCol, rtdb, nextId>>

\* The Realtime Database applies the write and set() resolves.
SetResolve(c) ==
    /\ setOp[c] = "pending"
    /\ setOp' = [setOp EXCEPT ![c] = "resolved"]
    /\ rtdb' = rtdbSet(rtdb, reading[c].stationId, dataToSync(reading[c]))
    /\ IF pc[c] = "sync"
       THEN /\ returnSaved(c, docRef[c])
            /\ outcome' = [outcome EXCEPT ![c].live = "resolved"]
       ELSE UNCHANGED <<result, pc, outcome>>
    /\ UNCHANGED <<env, now, reading, addDocOp, addDocCount, setCount, durableDeadline,
                   syncDeadline, docRef, readingsCol, nextId>>

\* set() rejects: the catch of syncToRealtimeDatabase swallows it.
SetReject(c) ==
    /\ setOp[c] = "pending"
    /\ setOp' = [setOp EXCEPT ![c] = "rejected"]
    /\ IF pc[c] = "sync"
       THEN /\ syncCatch(c, docRef[c])
            /\ outcome' = [outcome EXCEPT ![c].live = "rejected"]
       ELSE UNCHANGED <<result, pc, outcome>>
    /\ UNCHANGED <<env, now, reading, addDocOp, addDocCount, setCount, durableDeadline,
                   syncDeadline, docRef, readingsCol, rtdb, nextId>>

\* The Realtime Database timeoutPromise rejects first: same catch.
SyncTimeout(c) ==
    /\ pc[c] = "sync"
    /\ now >= syncDeadline[c]
    /\ syncCatch(c, docRef[c])
    /\ outcome' = [outcome EXCEPT ![c].live = "timeout"]
    /\ UNCHANGED <<env, now, reading, addDocOp, addDocCount, setOp, setCount,
                   durableDeadline, syncDeadline, docRef, readingsCol, rtdb, nextId>>

\* updateAQIData(stationId, data): timestamp: new Date(), source: data.source || 'manual'
updateAQIData(c, stationId, aqi, pm25, pm10, source, metadata) ==
    saveAQIReading(c, [stationId |-> stationId, aqi |-> aqi, pm25 |-> pm25,
                       pm10 |-> pm10, timestamp |-> now,
                       source |-> IF source = "" THEN "manual" ELSE source,
                       metadata |-> metadata])

----------------------------------------------------------------------------
(* saveStationMetadata                                                     *)

metaVars == <<stationDocs, metaPc, metaArg, metaResult>>

MetaCalls == {"m1", "m2"}
NoStationDoc == [exists |-> FALSE, createdAt |-> 0, updatedAt |-> 0]
NoMetaArg == [id |-> "", now |-> 0, createdAt |-> 0]

MetaInit ==
    /\ stationDocs = [s \in StationIds |-> NoStationDoc]
    /\ metaPc = [m \in MetaCalls |-> "idle"]
    /\ metaArg = [m \in MetaCalls |-> NoMetaArg]
    /\ metaResult = [m \in MetaCalls |-> NoResult]

\* The synchronous part of saveStationMetadata(station), up to await getDoc.
saveStationMetadata(m, id) ==
    /\ metaArg' = [metaArg EXCEPT ![m] = [id |-> id, now |-> now, createdAt |-> 0]]
    /\ IF ~isFirebaseConfigured
       THEN /\ metaResult' = [metaResult EXCEPT ![m] = Failure("Firebase not configured")]
            /\ metaPc' = [metaPc EXCEPT ![m] = "done"]
       ELSE IF ~getFirebaseFirestore
       THEN /\ metaResult' = [metaResult EXCEPT ![m] = Failure("Firestore not available")]
            /\ metaPc' = [metaPc EXCEPT ![m] = "done"]
       ELSE /\ metaPc' = [metaPc EXCEPT ![m] = "getDoc"]
            /\ UNCHANGED metaResult
    /\ UNCHANGED stationDocs

\* getDoc resolves: createdAt: existingDoc.exists() ? existingDoc.data().createdAt : now
metaGetDocResolve(m) ==
    /\ metaPc[m] = "getDoc"
    /\ metaArg' = [metaArg EXCEPT ![m].createdAt =
                      IF stationDocs[metaArg[m].id].exists
                      THEN stationDocs[metaArg[m].id].createdAt
                      ELSE metaArg[m].now]
    /\ metaPc' = [metaPc EXCEPT ![m] = "setDoc"]
    /\ UNCHANGED <<stationDocs, metaResult>>

\* setDoc resolves: the document is replaced
metaSetDocResolve(m) ==
    /\ metaPc[m] = "setDoc"
    /\ stationDocs' = [stationDocs EXCEPT ![metaArg[m].id] =
                          [exists |-> TRUE, createdAt |-> metaArg[m].createdAt,
                           updatedAt |-> metaArg[m].now]]
    /\ metaResult' = [metaResult EXCEPT ![m] = Success(0)]
    /\ metaPc' = [metaPc EXCEPT ![m] = "done"]
    /\ UNCHANGED metaArg

\* getDoc or setDoc rejects: catch, return { success: false }
metaReject(m) ==
    /\ metaPc[m] \in {"getDoc", "setDoc"}
    /\ metaResult' = [metaResult EXCEPT ![m] = Failure("FirebaseError")]
    /\ metaPc' = [metaPc EXCEPT ![m] = "done"]
    /\ UNCHANGED <<stationDocs, metaArg>>

----------------------------------------------------------------------------
(* AQIDataEntry: the admin form.                                           *)

uiVars == <<uiPc, uiForm, uiDeadline, uiResult>>

UiCall == "c1"     \* the updateAQIData call made by handleSubmit
UiMeta == "m1"     \* the saveStationMetadata call made by handleSubmit

\* Text typed into the numeric fields, with what Number(), parseInt() and
\* parseFloat() make of it.
NumStrings == {"", "287", "501", "abc", " "}
NumberOf(s) ==
    CASE s = "287" -> Num(287)
      [] s = "501" -> Num(501)
      [] s = "196" -> Num(196)
      [] s = "315" -> Num(315)
      [] s = "" -> Num(0)
      [] s = " " -> Num(0)          \* Number(' ') === 0
      [] OTHER -> NaNv
parseInt(s) ==
    CASE s = "287" -> Num(287)
      [] s = "501" -> Num(501)
      [] s = "196" -> Num(196)
      [] s = "315" -> Num(315)
      [] OTHER -> NaNv              \* parseInt('') and parseInt(' ') are NaN
parseFloat(s) == parseInt(s)        \* the sample strings hold no fraction
isNaN(x) == x.k = "nan"

Forms == [stationId : WriteStationIds, stationName : {"", "N"}, isNewStation : BOOLEAN,
          aqi : NumStrings, pm25 : {"196", ""}, pm10 : {"315", "abc"}, notes : {"", "n"}]
NoForm == [stationId |-> "", stationName |-> "", isNewStation |-> FALSE,
           aqi |-> "", pm25 |-> "", pm10 |-> "", notes |-> ""]

NoUiResult == [shown |-> FALSE, success |-> FALSE, message |-> ""]
UiShown(ok, msg) == [shown |-> TRUE, success |-> ok, message |-> msg]

UiInit ==
    /\ uiPc = "idle"
    /\ uiForm = NoForm
    /\ uiDeadline = 0
    /\ uiResult = NoUiResult

\* validateForm(): the error message, or "" for null
validateForm(f) ==
    IF f.stationId = "" /\ ~f.isNewStation THEN "Please select or create a station"
    ELSE IF f.isNewStation /\ (f.stationId = "" \/ f.stationName = "")
    THEN "Station ID and name are required for new stations"
    ELSE IF f.aqi = "" \/ isNaN(NumberOf(f.aqi)) THEN "Valid AQI value is required"
    ELSE IF f.pm25 = "" \/ isNaN(NumberOf(f.pm25)) THEN "Valid PM2.5 value is required"
    ELSE IF f.pm10 = "" \/ isNaN(NumberOf(f.pm10)) THEN "Valid PM10 value is required"
    ELSE ""

\* Lines 354-384: start the 15 s timer, call updateAQIData, race the two.
uiSubmitReading(f) ==
    /\ uiDeadline' = now + UI_TIMEOUT
    /\ uiPc' = "race"
    /\ updateAQIData(UiCall, f.stationId, parseInt(f.aqi), parseFloat(f.pm25),
                     parseFloat(f.pm10), "manual",
                     IF f.notes = "" THEN "undefined" ELSE "notes")
    /\ UNCHANGED uiResult

\* handleSubmit, up to its first await
HandleSubmit ==
    /\ uiPc = "idle"
    /\ pc[UiCall] = "idle"
    /\ metaPc[UiMeta] = "idle"
    /\ \E f \in Forms :
          IF validateForm(f) # ""
          THEN /\ uiResult' = UiShown(FALSE, validateForm(f))
               /\ uiPc' = "done"
               /\ UNCHANGED <<uiForm, uiDeadline, metaVars, reading, result, pc,
                              addDocOp, addDocCount, durableDeadline, outcome>>
          ELSE IF f.isNewStation
          THEN /\ saveStationMetadata(UiMeta, f.stationId)
               /\ uiForm' = f
               /\ uiPc' = "meta"
               /\ UNCHANGED <<uiDeadline, uiResult, reading, result, pc,
                              addDocOp, addDocCount, durableDeadline, outcome>>
          ELSE /\ uiSubmitReading(f)
               /\ UNCHANGED <<uiForm, metaVars>>
    /\ UNCHANGED <<env, now, setOp, setCount, syncDeadline, docRef, readingsCol, rtdb, nextId>>

\* saveStationMetadata returned to handleSubmit (lines 347-352, then 354-384)
UiAfterMetadata ==
    /\ uiPc = "meta"
    /\ metaPc[UiMeta] = "done"
    /\ IF ~metaResult[UiMeta].success
       THEN /\ uiResult' = UiShown(FALSE, "Failed to create station")
            /\ uiPc' = "done"
            /\ UNCHANGED <<uiDeadline, reading, result, pc, addDocOp, addDocCount,
                           durableDeadline, outcome>>
       ELSE uiSubmitReading(uiForm)
    /\ UNCHANGED <<env, now, setOp, setCount, syncDeadline, docRef, readingsCol, rtdb,
                   nextId, metaVars, uiForm>>

\* updateAQIData returned first: .then() maps the result, the race settles
UiSettle ==
    /\ uiPc = "race"
    /\ pc[UiCall] = "done"
    /\ uiResult' = IF result[UiCall].success
                   THEN UiShown(TRUE, "AQI data submitted successfully!")
                   ELSE UiShown(FALSE, "Failed to submit")
    /\ uiPc' = "done"
    /\ UNCHANGED <<syncVars, metaVars, uiForm, uiDeadline>>

\* The 15 s timer rejects first: catch, "Failed to submit: Submission timed out."
UiTimeout ==
    /\ uiPc = "race"
    /\ pc[UiCall] # "done"
    /\ now >= uiDeadline
    /\ uiResult' = UiShown(FALSE, "Failed to submit: Submission timed out")
    /\ uiPc' = "done"
    /\ UNCHANGED <<syncVars, metaVars, uiForm, uiDeadline>>

----------------------------------------------------------------------------
(* The clock.  It is observed while a write of a reading is in flight; a   *)
(* continuation that is ready (a settled promise) runs before any timer.   *)

TimerDue ==
    \/ \E c \in Calls : \/ pc[c] = "addDoc" /\ now >= durableDeadline[c]
                        \/ pc[c] = "sync" /\ now >= syncDeadline[c]
    \/ uiPc = "race" /\ now >= uiDeadline
    \/ uiPc = "race" /\ pc[UiCall] = "done"

InFlight == \E c \in Calls : addDocOp[c] = "pending" \/ setOp[c] = "pending"

Tick ==
    /\ now < MaxTime
    /\ InFlight
    /\ ~TimerDue
    /\ now' = now + 1
    /\ UNCHANGED <<env, pc, reading, addDocOp, addDocCount, setOp, setCount,
                   durableDeadline, syncDeadline, docRef, result, readingsCol, rtdb, nextId,
                   outcome>>
    /\ UNCHANGED <<metaVars, uiVars>>

----------------------------------------------------------------------------
(* Callers of the write path other than the admin form (seeding, sensors). *)

AqiInputs == {Num(287), Num(501), NaNv}
PmInputs == {Num(196), Undef}

CallUpdateAQIData(c) ==
    /\ pc[c] = "idle"
    /\ uiPc = "idle"
    /\ \E sid \in WriteStationIds, aqi \in AqiInputs, pm \in PmInputs, md \in {"undefined", "empty", "notes"} :
          updateAQIData(c, sid, aqi, pm, Num(315), "api", md)
    /\ UNCHANGED <<env, now, setOp, setCount, syncDeadline, docRef, readingsCol, rtdb, nextId>>
    /\ UNCHANGED <<metaVars, uiVars>>

----------------------------------------------------------------------------
(* batchUpdateRealtimeDB                                                   *)

batchVars == <<batch, batchPc, updOp, batchResult>>

MaxBatch == 3
BatchUpdates ==
    {[stationId |-> "s1", aqi |-> Num(50), pm25 |-> Num(196)],
     [stationId |-> "s2", aqi |-> Num(300), pm25 |-> Undef],
     [stationId |-> "s3", aqi |-> Num(120), pm25 |-> Num(80)]}
\* batches: sequences of updates of distinct stations
Batches ==
    UNION {{b \in [1..n -> BatchUpdates] :
               \A i, j \in 1..n : i # j => b[i].stationId # b[j].stationId} : n \in 0..MaxBatch}

BatchInit ==
    /\ batch = <<>>
    /\ batchPc = "idle"
    /\ updOp = [i \in 1..(MaxBatch + 1) |-> "none"]
    /\ batchResult = NoResult

\* update(stationRef, {aqi, ...pollutants, lastUpdated}): the given fields are merged
rtdbUpdate(db, u, at) ==
    [db EXCEPT ![u.stationId] =
        [present |-> TRUE, aqi |-> u.aqi,
         pm25 |-> IF u.pm25 = Undef THEN @.pm25 ELSE u.pm25,
         pm10 |-> @.pm10, lastUpdated |-> at, source |-> @.source]]

\* a variant: the updates are awaited one after the other: the first rejection ends
\* the loop and the later updates are never issued
issueUpdatesOneByOne(b) == [i \in 1..(MaxBatch + 1) |-> IF i = 1 /\ i <= Len(b) THEN "pending" ELSE "none"]
\* updates.map(async ...): every callback runs at once and issues its update()
issueUpdates(b) == [i \in 1..(MaxBatch + 1) |-> IF i <= Len(b) THEN "pending" ELSE "none"]

BatchUpdateRealtimeDB ==
    /\ batchPc = "idle"
    /\ \E b \in Batches :
          /\ batch' = b
          /\ IF ~isRealtimeDatabaseConfigured
             THEN /\ batchResult' = Failure("Realtime Database not configured")
                  /\ batchPc' = "done"
                  /\ UNCHANGED updOp
             ELSE \/ \* getFirebaseDatabase() returned null
                     /\ batchResult' = Failure("Database not available")
                     /\ batchPc' = "done"
                     /\ UNCHANGED updOp
                  \/ /\ updOp' = issueUpdates(b)
                     /\ IF Len(b) = 0
                        THEN batchResult' = Success(0) /\ batchPc' = "done"
                        ELSE batchPc' = "awaiting" /\ UNCHANGED batchResult
    /\ UNCHANGED rtdb

\* One update() resolves: the store holds it.  Promise.all resolves with the last.
UpdateResolve(i) ==
    /\ i <= Len(batch)
    /\ updOp[i] = "pending"
    /\ updOp' = [updOp EXCEPT ![i] = "resolved"]
    /\ rtdb' = rtdbUpdate(rtdb, batch[i], now)
    /\ IF batchPc = "awaiting" /\ \A j \in 1..Len(batch) : updOp'[j] = "resolved"
       THEN batchResult' = Success(0) /\ batchPc' = "done"
       ELSE UNCHANGED <<batchResult, batchPc>>
    /\ UNCHANGED batch

\* a variant: a rejected update is passed over and the batch reports success
UpdateRejectIgnored(i) ==
    /\ i <= Len(batch)
    /\ updOp[i] = "pending"
    /\ updOp' = [updOp EXCEPT ![i] = "rejected"]
    /\ IF batchPc = "awaiting"
       THEN batchResult' = Success(0) /\ batchPc' = "done"
       ELSE UNCHANGED <<batchResult, batchPc>>
    /\ UNCHANGED <<batch, rtdb>>

\* One update() rejects: Promise.all rejects with the first rejection, the catch
\* returns failure; the other promises stay as they are.
UpdateReject(i) ==
    /\ i <= Len(batch)
    /\ updOp[i] = "pending"
    /\ updOp' = [updOp EXCEPT ![i] = "rejected"]
    /\ IF batchPc = "awaiting"
       THEN batchResult' = Failure("FirebaseError") /\ batchPc' = "done"
       ELSE UNCHANGED <<batchResult, batchPc>>
    /\ UNCHANGED <<batch, rtdb>>

----------------------------------------------------------------------------
(* POST /api/firebase                                                      *)

postVars == <<postReq, postResp>>

\* Values JSON.parse can produce for the fields (no NaN: JSON has none).
JsonStationIds == {Undef, Str(""), Str("s1"), Num(7)}
JsonAqis == {Undef, Null, Str("250"), Num(-1), Num(0), Num(250), Num(500), Num(501)}
JsonPms == {Undef, Num(196), Str("x")}
JsonPollutants == {Undef} \cup {[k |-> "object", pm25 |-> a, pm10 |-> b] : a, b \in JsonPms}
JsonReadings ==
    {Null} \cup [k : {"object"}, stationId : JsonStationIds, aqi : JsonAqis,
                 pollutants : JsonPollutants, source : {Undef, Str("sensor")}]
MaxReadings == 2
\* bodies: a single reading, a batch {readings: [...]} or text that is no JSON
PostBodies ==
    {[kind |-> "invalid", readings |-> <<>>]}
    \cup {[kind |-> "single", readings |-> <<r>>] : r \in JsonReadings}
    \cup {[kind |-> "batch", readings |-> rs] :
             rs \in UNION {[1..n -> {Null} \cup
                              {r \in JsonReadings \ {Null} :
                                  r.stationId \in {Str("s1"), Str("")} /\ r.source = Undef
                                  /\ r.pollutants \in {Undef, [k |-> "object", pm25 |-> Num(196), pm10 |-> Num(196)]}
                                  /\ r.aqi \in {Num(0), Num(500), Num(501), Str("250")}}] : n \in 0..MaxReadings}}
ApiKeys == {"", "k1", "k2"}      \* "" : header absent / variable unset

NoPostReq == [body |-> [kind |-> "invalid", readings |-> <<>>], apiKey |-> "", expectedKey |-> ""]
NoPostResp == [status |-> 0, success |-> FALSE, error |-> "", validatedReadings |-> <<>>,
               errors |-> <<>>]
PostInit == postReq = NoPostReq /\ postResp = NoPostResp

Falsy(x) == x.k \in {"undefined", "null", "nan"} \/ x = Str("") \/ x = Num(0)

\* a variant: the bounds themselves are refused
validateReadingStrict(data) ==
    IF Falsy(data.stationId) \/ data.stationId.k # "string"
    THEN "stationId is required and must be a string"
    ELSE IF ~IsNumber(data.aqi) \/ (data.aqi.k = "number" /\ (data.aqi.v <= 0 \/ data.aqi.v >= 500))
    THEN "aqi must be a number between 0 and 500"
    ELSE IF data.pollutants.k # "object" THEN "pollutants object is required"
    ELSE IF ~IsNumber(data.pollutants.pm25) THEN "pollutants.pm25 is required"
    ELSE IF ~IsNumber(data.pollutants.pm10) THEN "pollutants.pm10 is required"
    ELSE ""

\* validateReading(data): the error message, or "" for null.  NaN < 0 and NaN > 500
\* are both false.
validateReading(data) ==
    IF Falsy(data.stationId) \/ data.stationId.k # "string"
    THEN "stationId is required and must be a string"
    ELSE IF ~IsNumber(data.aqi) \/ (data.aqi.k = "number" /\ (data.aqi.v < 0 \/ data.aqi.v > 500))
    THEN "aqi must be a number between 0 and 500"
    ELSE IF data.pollutants.k # "object" THEN "pollutants object is required"
    ELSE IF ~IsNumber(data.pollutants.pm25) THEN "pollutants.pm25 is required"
    ELSE IF ~IsNumber(data.pollutants.pm10) THEN "pollutants.pm10 is required"
    ELSE ""

\* source: reading.source || 'api'
withSource(r) == [r EXCEPT !.source = IF Falsy(@) THEN Str("api") ELSE @]

RECURSIVE batchErrors(_, _)
batchErrors(rs, i) ==
    IF i > Len(rs) THEN <<>>
    ELSE IF validateReading(rs[i]) # ""
    THEN <<[index |-> i - 1, error |-> validateReading(rs[i])]>> \o batchErrors(rs, i + 1)
    ELSE batchErrors(rs, i + 1)

RECURSIVE batchValidated(_, _)
batchValidated(rs, i) ==
    IF i > Len(rs) THEN <<>>
    ELSE IF validateReading(rs[i]) = ""
    THEN <<withSource(rs[i])>> \o batchValidated(rs, i + 1)
    ELSE batchValidated(rs, i + 1)

\* a variant: a request without the header is let through
unauthorizedIfPresent(req) ==
    req.expectedKey # "" /\ req.apiKey # "" /\ req.apiKey # req.expectedKey

\* if (expectedKey && apiKey !== expectedKey)
unauthorized(req) == req.expectedKey # "" /\ req.apiKey # req.expectedKey

PostResponse(req) ==
    IF req.body.kind = "invalid"
    THEN [NoPostResp EXCEPT !.status = 500, !.error = "Invalid JSON or server error"]
    ELSE IF unauthorized(req)
    THEN [NoPostResp EXCEPT !.status = 401, !.error = "Unauthorized - Invalid API key"]
    ELSE IF \E i \in 1..Len(req.body.readings) : req.body.readings[i] = Null
    THEN \* body.readings / data.stationId of null throws a TypeError: the catch
         [NoPostResp EXCEPT !.status = 500, !.error = "Invalid JSON or server error"]
    ELSE IF req.body.kind = "batch"
    THEN [status |-> 200,
          success |-> Len(batchErrors(req.body.readings, 1)) = 0,
          error |-> "",
          validatedReadings |-> batchValidated(req.body.readings, 1),
          errors |-> batchErrors(req.body.readings, 1)]
    ELSE IF validateReading(req.body.readings[1]) # ""
    THEN [NoPostResp EXCEPT !.status = 400, !.error = validateReading(req.body.readings[1])]
    ELSE [NoPostResp EXCEPT !.status = 200, !.success = TRUE,
                            !.validatedReadings = <<withSource(req.body.readings[1])>>]

\* One request is handled per run: the handler keeps no state between requests.
POST ==
    /\ postResp = NoPostResp
    /\ \E body \in PostBodies, key \in ApiKeys, expected \in {"", "k1"} :
          /\ postReq' = [body |-> body, apiKey |-> key, expectedKey |-> expected]
          /\ postResp' = PostResponse(postReq')
    /\ UNCHANGED <<readingsCol, rtdb, stationDocs>>

----------------------------------------------------------------------------
(* GET: historical data                                                    *)

histVars == <<histReq, histResp, histCalls>>

\* Dates are counted in hours; a day is 1000 * 60 * 60 * 24 ms.
HoursPerDay == 24
MaxRangeDays == 90
\* the allow-list of @/lib/historical-api
DELHI_STATIONS == {"aicte-delhi", "anand-vihar"}

Absent == [k |-> "absent", v |-> 0]       \* searchParams.get() === null, or ''
InvalidDate == [k |-> "text", v |-> 0]    \* new Date(s).getTime() is NaN
DateAt(h) == [k |-> "date", v |-> h]
DateParams ==
    {Absent, InvalidDate, DateAt(0), DateAt(1),
     DateAt(MaxRangeDays * HoursPerDay), DateAt(MaxRangeDays * HoursPerDay + 1),
     DateAt((MaxRangeDays + 1) * HoursPerDay)}
RangeParams == {"", "24h", "7d", "30d", "custom", "1y"}
StationParams == {"", "aicte-delhi", "anand-vihar", "nowhere"}

NoHistReq == [range |-> "", station |-> "", startDate |-> Absent, endDate |-> Absent]
NoHistResp == [status |-> 0, success |-> FALSE, error |-> ""]
HistInit == histReq = NoHistReq /\ histResp = NoHistResp /\ histCalls = 0

Bad(msg) == [status |-> 400, success |-> FALSE, error |-> msg]

\* a variant: Math.floor in place of Math.ceil
diffDaysFloor(start, end) == (end - start) \div HoursPerDay
\* Math.ceil((end.getTime() - start.getTime()) / (1000 * 60 * 60 * 24)), start <= end
diffDays(start, end) == (end - start + HoursPerDay - 1) \div HoursPerDay

\* The validation of the handler: the 400 response, or NoHistResp when it passed.
histValidation(req) ==
    LET range == IF req.range = "" THEN "24h" ELSE req.range
        stationId == IF req.station = "" THEN "aicte-delhi" ELSE req.station
    IN  IF range \notin {"24h", "7d", "30d", "custom"}
        THEN Bad("Invalid range. Use 24h, 7d, 30d, or custom")
        ELSE IF stationId \notin DELHI_STATIONS THEN Bad("Invalid station")
        ELSE IF range # "custom" THEN NoHistResp
        ELSE IF req.startDate = Absent \/ req.endDate = Absent
        THEN Bad("Custom range requires startDate and endDate parameters")
        ELSE IF req.startDate.k # "date" \/ req.endDate.k # "date"
        THEN Bad("Invalid date format. Use ISO date string (YYYY-MM-DD)")
        ELSE IF req.startDate.v > req.endDate.v
        THEN Bad("Start date must be before or equal to end date")
        ELSE IF diffDays(req.startDate.v, req.endDate.v) > MaxRangeDays
        THEN Bad("Date range cannot exceed 90 days")
        ELSE NoHistResp

GetHistorical ==
    \E req \in [range : RangeParams, station : StationParams,
                startDate : DateParams, endDate : DateParams] :
        /\ histResp = NoHistResp
        /\ histReq' = req
        /\ IF histValidation(req) # NoHistResp
           THEN histResp' = histValidation(req) /\ histCalls' = 0
           ELSE /\ histCalls' = 1
                /\ \/ histResp' = [status |-> 200, success |-> TRUE, error |-> ""]
                   \/ histResp' = [status |-> 200, success |-> FALSE, error |-> "No data"]
                   \/ \* getHistoricalData throws: the catch
                      histResp' = [status |-> 500, success |-> FALSE,
                                   error |-> "Internal server error"]

----------------------------------------------------------------------------
(* The aqi.in scraper.  Calls of scrapeAQIIn are made one after another.   *)
(* Date.now() is read in whole minutes by the cache; waitForCloudflare     *)
(* measures the seconds elapsed since its own startTime.  Every awaited    *)
(* browser operation either resolves or throws; the minute of the clock    *)
(* does not change during a call.  The contexts of a browser that died or  *)
(* was closed are gone.                                                    *)

VARIABLES
    clock,               \* Date.now(), minutes
    cachedScrapedData,   \* module-level cache
    browserInstance,     \* module-level browser handle
    openContexts,        \* browser contexts created and not closed
    nextHandle,          \* next fresh browser / context handle
    scrapePc,            \* position of the running scrapeAQIIn call
    attempt,             \* loop variable of scrapeAQIIn
    page,                \* local variable page (0 is null; else its context)
    context,             \* local constant context of the attempt
    closing,             \* which branch is closing page and context
    cfElapsed,           \* Date.now() - startTime in waitForCloudflare, seconds
    scraped,             \* local constant result
    scrapeRet,           \* value returned by the last call
    scrapeCalls,         \* number of calls made
    cacheAtCall,         \* history: the cache when the call was made
    lastStore,           \* history: the last result a scrape stored, and when
    clearedSince,        \* history: clearScraperCache ran after the last store
    hitExpected,         \* history: the call was made < 5 min after that store
    work,                \* history: browser work done by the call
    thisAttempt,         \* history: the current (or last) attempt of the call
    prevAttempt,         \* history: the attempt before it
    faults               \* number of failures of the browser so far

scrapeVars == <<clock, cachedScrapedData, browserInstance, openContexts, nextHandle,
                scrapePc, attempt, page, context, closing, cfElapsed, scraped,
                scrapeRet, scrapeCalls, cacheAtCall, lastStore, clearedSince,
                hitExpected, work, thisAttempt, prevAttempt, faults>>

CACHE_DURATION == 5
maxRetries == 3
maxWaitTime == 30

MaxClock == 5
MaxScrapes == 2
MaxFaults == 1

\* page.content() shows a challenge or not; a poll that shows one costs
\* simulateHumanBehavior plus humanDelay(2000, 4000)
PollDelays == {5, 10}
\* what page.evaluate extracts from the dashboard
Extracted == {[delhiAqi |-> 0, pm25 |-> 0], [delhiAqi |-> 312, pm25 |-> 0]}

NoCache == [present |-> FALSE, data |-> Null, timestamp |-> 0]
NoBrowser == [present |-> FALSE, id |-> 0, connected |-> FALSE]
NoStore == [present |-> FALSE, data |-> Null, at |-> 0]
NoWork == [launched |-> FALSE, contextCreated |-> FALSE, navigated |-> FALSE]
\* per attempt (history): its number, its context, what it extracted, how it
\* ended, and whether humanDelay(3000, 5000) was awaited before it started
NoAttempt == [n |-> 0, ctx |-> 0, aqi |-> -1, end |-> "", delayed |-> FALSE]
NewAttempt(n, delayed) == [n |-> n, ctx |-> 0, aqi |-> -1, end |-> "", delayed |-> delayed]

ScrapeInit ==
    /\ clock = 0 /\ cachedScrapedData = NoCache /\ browserInstance = NoBrowser
    /\ openContexts = {} /\ nextHandle = 1
    /\ scrapePc = "idle" /\ attempt = 0 /\ page = 0 /\ context = 0
    /\ closing = "" /\ cfElapsed = 0 /\ scraped = Null /\ scrapeRet = Null
    /\ scrapeCalls = 0 /\ cacheAtCall = NoCache /\ lastStore = NoStore
    /\ clearedSince = FALSE /\ hitExpected = FALSE /\ work = NoWork
    /\ thisAttempt = NoAttempt /\ prevAttempt = NoAttempt /\ faults = 0

\* Math.round(delhiAqi * 0.7)
RoundSevenTenths(n) == (7 * n + 5) \div 10

buildResult(data) ==
    [delhiAqi |-> data.delhiAqi,
     pm25 |-> IF data.pm25 # 0 THEN data.pm25 ELSE RoundSevenTenths(data.delhiAqi),
     lastUpdated |-> clock]

cacheHitOffByOne ==
    /\ cachedScrapedData.present
    /\ clock - cachedScrapedData.timestamp < CACHE_DURATION - 1

cacheHit ==
    /\ cachedScrapedData.present
    /\ clock - cachedScrapedData.timestamp < CACHE_DURATION

endAttempt(how) == [thisAttempt EXCEPT !.end = how]

\* the try block starts: it runs up to the first await, in getBrowser
beginAttempt(n, pg, last, delayed) ==
    /\ attempt' = n
    /\ scrapePc' = "getBrowser"
    /\ page' = pg
    /\ context' = 0 /\ closing' = "" /\ scraped' = Null
    /\ scrapeRet' = Null
    /\ thisAttempt' = NewAttempt(n, delayed)
    /\ prevAttempt' = last

\* the call returns v; its local variables are gone
returnFromScrape(v, last, prev) ==
    /\ scrapePc' = "idle"
    /\ scrapeRet' = v
    /\ attempt' = 0 /\ page' = 0 /\ context' = 0 /\ closing' = "" /\ scraped' = Null
    /\ thisAttempt' = last
    /\ prevAttempt' = prev

\* page = null; continue: the next iteration, or the return null after the loop
continueLoop(last) ==
    IF attempt < maxRetries
    THEN beginAttempt(attempt + 1, 0, last, FALSE)
    ELSE returnFromScrape(Null, last, prevAttempt)

\* a variant: the catch block throws the error on after the last attempt
catchRethrows ==
    IF attempt = maxRetries
    THEN /\ scrapePc' = "rejected"
         /\ thisAttempt' = endAttempt("catch")
         /\ attempt' = 0 /\ page' = 0 /\ context' = 0 /\ closing' = "" /\ scraped' = Null
         /\ UNCHANGED <<scrapeRet, prevAttempt>>
    ELSE /\ scrapePc' = "backoff"
         /\ thisAttempt' = endAttempt("catch")
         /\ context' = 0 /\ closing' = "" /\ scraped' = Null
         /\ UNCHANGED <<attempt, page, scrapeRet, prevAttempt>>

\* the catch block: closes the page (errors ignored), not the context; after
\* the last attempt it returns null, otherwise it awaits humanDelay(3000, 5000)
catch ==
    IF attempt = maxRetries
    THEN returnFromScrape(Null, endAttempt("catch"), prevAttempt)
    ELSE /\ scrapePc' = "backoff"
         /\ thisAttempt' = endAttempt("catch")
         /\ context' = 0 /\ closing' = "" /\ scraped' = Null
         /\ UNCHANGED <<attempt, page, scrapeRet, prevAttempt>>

ScrapeAQIIn ==
    /\ scrapePc = "idle" /\ scrapeCalls < MaxScrapes
    /\ scrapeCalls' = scrapeCalls + 1
    /\ cacheAtCall' = cachedScrapedData
    /\ hitExpected' = /\ lastStore.present /\ ~clearedSince
                      /\ clock - lastStore.at < CACHE_DURATION
    /\ work' = NoWork
    /\ IF cacheHit
       THEN returnFromScrape(cachedScrapedData.data, NoAttempt, NoAttempt)
       ELSE beginAttempt(1, 0, NoAttempt, FALSE)
    /\ UNCHANGED <<clock, cachedScrapedData, browserInstance, openContexts,
                   nextHandle, cfElapsed, lastStore, clearedSince, faults>>

\* getBrowser: the handle is reused while it is connected
GetBrowserReuse ==
    /\ scrapePc = "getBrowser"
    /\ browserInstance.present /\ browserInstance.connected
    /\ scrapePc' = "newContext" 
    /\ UNCHANGED <<clock, cachedScrapedData, browserInstance, openContexts,
                   nextHandle, attempt, page, context, closing, cfElapsed,
                   scraped, scrapeRet, scrapeCalls, cacheAtCall, lastStore,
                   clearedSince, hitExpected, work, thisAttempt, prevAttempt,
                   faults>>

\* a variant: getBrowser launches whatever the handle holds
GetBrowserLaunchAlways ==
    /\ scrapePc = "getBrowser"
    /\ scrapePc' = "launching"
    /\ work' = [work EXCEPT !.launched = TRUE]
    /\ UNCHANGED <<clock, cachedScrapedData, browserInstance, openContexts,
                   nextHandle, attempt, page, context, closing, cfElapsed,
                   scraped, scrapeRet, scrapeCalls, cacheAtCall, lastStore,
                   clearedSince, hitExpected, thisAttempt, prevAttempt, faults>>

\* getBrowser: chromium.launch is issued
GetBrowserLaunch ==
    /\ scrapePc = "getBrowser"
    /\ ~(browserInstance.present /\ browserInstance.connected)
    /\ scrapePc' = "launching"
    /\ work' = [work EXCEPT !.launched = TRUE]
    /\ UNCHANGED <<clock, cachedScrapedData, browserInstance, openContexts,
                   nextHandle, attempt, page, context, closing, cfElapsed,
                   scraped, scrapeRet, scrapeCalls, cacheAtCall, lastStore,
                   clearedSince, hitExpected, thisAttempt, prevAttempt, faults>>

LaunchResolve ==
    /\ scrapePc = "launching"
    /\ browserInstance' = [present |-> TRUE, id |-> nextHandle, connected |-> TRUE]
    /\ nextHandle' = nextHandle + 1
    /\ scrapePc' = "newContext" 
    /\ UNCHANGED <<clock, cachedScrapedData, openContexts, attempt, page,
                   context, closing, cfElapsed, scraped, scrapeRet,
                   scrapeCalls, cacheAtCall, lastStore, clearedSince,
                   hitExpected, work, thisAttempt, prevAttempt, faults>>

NewContext ==
    /\ scrapePc = "newContext"
    /\ context' = nextHandle
    /\ nextHandle' = nextHandle + 1
    /\ openContexts' = openContexts \cup {nextHandle}
    /\ work' = [work EXCEPT !.contextCreated = TRUE]
    /\ thisAttempt' = [thisAttempt EXCEPT !.ctx = nextHandle]
    /\ scrapePc' = "newPage" 
    /\ UNCHANGED <<clock, cachedScrapedData, browserInstance, attempt, page,
                   closing, cfElapsed, scraped, scrapeRet, scrapeCalls,
                   cacheAtCall, lastStore, clearedSince, hitExpected,
                   prevAttempt, faults>>

\* context.newPage() and applyAdvancedStealth(page)
NewPage ==
    /\ scrapePc = "newPage"
    /\ page' = context
    /\ scrapePc' = "goto" 
    /\ UNCHANGED <<clock, cachedScrapedData, browserInstance, openContexts,
                   nextHandle, attempt, context, closing, cfElapsed, scraped,
                   scrapeRet, scrapeCalls, cacheAtCall, lastStore,
                   clearedSince, hitExpected, work, thisAttempt, prevAttempt,
                   faults>>

\* page.goto resolves; waitForCloudflare takes its startTime
Goto ==
    /\ scrapePc = "goto"
    /\ work' = [work EXCEPT !.navigated = TRUE]
    /\ cfElapsed' = 0
    /\ scrapePc' = "waitCF" 
    /\ UNCHANGED <<clock, cachedScrapedData, browserInstance, openContexts,
                   nextHandle, attempt, page, context, closing, scraped,
                   scrapeRet, scrapeCalls, cacheAtCall, lastStore,
                   clearedSince, hitExpected, thisAttempt, prevAttempt, faults>>

\* waitForCloudflare: the page shows no challenge, returns true
CfCleared ==
    /\ scrapePc = "waitCF"
    /\ cfElapsed < maxWaitTime
    /\ cfElapsed' = 0
    /\ scrapePc' = "evaluate" 
    /\ UNCHANGED <<clock, cachedScrapedData, browserInstance, openContexts,
                   nextHandle, attempt, page, context, closing, scraped,
                   scrapeRet, scrapeCalls, cacheAtCall, lastStore,
                   clearedSince, hitExpected, work, thisAttempt, prevAttempt,
                   faults>>

\* waitForCloudflare: the page shows the challenge, wait and poll again
CfChallenge ==
    /\ scrapePc = "waitCF"
    /\ cfElapsed < maxWaitTime
    /\ \E d \in PollDelays : cfElapsed' = cfElapsed + d
    /\ UNCHANGED <<clock, cachedScrapedData, browserInstance, openContexts,
                   nextHandle, scrapePc, attempt, page, context, closing,
                   scraped, scrapeRet, scrapeCalls, cacheAtCall, lastStore,
                   clearedSince, hitExpected, work, thisAttempt, prevAttempt,
                   faults>>

\* a variant: the attempt goes on to extract although waitForCloudflare
\* returned false
CfTimeoutIgnored ==
    /\ scrapePc = "waitCF"
    /\ cfElapsed >= maxWaitTime
    /\ cfElapsed' = 0
    /\ scrapePc' = "evaluate"
    /\ UNCHANGED <<clock, cachedScrapedData, browserInstance, openContexts,
                   nextHandle, attempt, page, context, closing, scraped, scrapeRet,
                   scrapeCalls, cacheAtCall, lastStore, clearedSince,
                   hitExpected, work, thisAttempt, prevAttempt, faults>>

\* waitForCloudflare returns false: the attempt is given up
CfTimeout ==
    /\ scrapePc = "waitCF"
    /\ cfElapsed >= maxWaitTime
    /\ cfElapsed' = 0
    /\ closing' = "blocked"
    /\ scrapePc' = "closePage" 
    /\ UNCHANGED <<clock, cachedScrapedData, browserInstance, openContexts,
                   nextHandle, attempt, page, context, scraped, scrapeRet,
                   scrapeCalls, cacheAtCall, lastStore, clearedSince,
                   hitExpected, work, thisAttempt, prevAttempt, faults>>

\* what follows page.evaluate when the value is not validated
afterExtractUnvalidated(data) ==
    /\ scraped' = buildResult(data)
    /\ cachedScrapedData' = [present |-> TRUE, data |-> buildResult(data),
                             timestamp |-> clock]
    /\ lastStore' = [present |-> TRUE, data |-> buildResult(data), at |-> clock]
    /\ clearedSince' = FALSE
    /\ closing' = "ok"

\* what follows page.evaluate: the zero check, or the result and the cache
afterExtract(data) ==
    IF data.delhiAqi = 0
    THEN /\ closing' = "zero"
         /\ UNCHANGED <<scraped, cachedScrapedData, lastStore, clearedSince>>
    ELSE /\ scraped' = buildResult(data)
         /\ cachedScrapedData' = [present |-> TRUE, data |-> buildResult(data),
                                  timestamp |-> clock]
         /\ lastStore' = [present |-> TRUE, data |-> buildResult(data), at |-> clock]
         /\ clearedSince' = FALSE
         /\ closing' = "ok"

\* simulateHumanBehavior and page.evaluate resolve
Evaluate ==
    /\ scrapePc = "evaluate"
    /\ \E data \in Extracted :
          /\ afterExtract(data)
          /\ thisAttempt' = [thisAttempt EXCEPT !.aqi = data.delhiAqi]
    /\ scrapePc' = "closePage" 
    /\ UNCHANGED <<clock, browserInstance, openContexts, nextHandle, attempt,
                   page, context, cfElapsed, scrapeRet, scrapeCalls,
                   cacheAtCall, hitExpected, work, prevAttempt, faults>>

\* page.close() resolves
PageClose ==
    /\ scrapePc = "closePage"
    /\ scrapePc' = "closeContext" 
    /\ UNCHANGED <<clock, cachedScrapedData, browserInstance, openContexts,
                   nextHandle, attempt, page, context, closing, cfElapsed,
                   scraped, scrapeRet, scrapeCalls, cacheAtCall, lastStore,
                   clearedSince, hitExpected, work, thisAttempt, prevAttempt,
                   faults>>

\* context.close() resolves: return result, or page = null and continue
ContextClose ==
    /\ scrapePc = "closeContext"
    /\ openContexts' = openContexts \ {context}
    /\ IF closing = "ok"
       THEN returnFromScrape(scraped, endAttempt("return"), prevAttempt)
       ELSE continueLoop(endAttempt("continue"))
    /\ UNCHANGED <<clock, cachedScrapedData, browserInstance, nextHandle,
                   cfElapsed, scrapeCalls, cacheAtCall, lastStore,
                   clearedSince, hitExpected, work, faults>>

\* a variant: the catch block closes the browser and resets the handle
browserClosedInCatch ==
    /\ browserInstance' = NoBrowser
    /\ openContexts' = {}

\* the catch block leaves browserInstance, and the contexts of the browser, alone
browserAfterCatch == UNCHANGED <<browserInstance, openContexts>>

ThrowingSteps == {"launching", "newContext", "newPage", "goto", "waitCF", "evaluate",
                  "closePage", "closeContext"}

\* an awaited browser operation throws: the operation failed, or the browser
\* process died under it
Throw ==
    /\ scrapePc \in ThrowingSteps
    /\ faults < MaxFaults
    /\ faults' = faults + 1
    /\ work' = IF scrapePc = "goto" THEN [work EXCEPT !.navigated = TRUE] ELSE work
    /\ \/ browserAfterCatch
       \/ /\ browserInstance.present /\ browserInstance.connected
          /\ browserInstance' = [browserInstance EXCEPT !.connected = FALSE]
          /\ openContexts' = {}
    /\ cfElapsed' = 0
    /\ catch
    /\ UNCHANGED <<clock, cachedScrapedData, nextHandle, scrapeCalls,
                   cacheAtCall, lastStore, clearedSince, hitExpected>>

\* humanDelay(3000, 5000) of the catch block is over
Backoff ==
    /\ scrapePc = "backoff"
    /\ beginAttempt(attempt + 1, page, thisAttempt, TRUE)
    /\ UNCHANGED <<clock, cachedScrapedData, browserInstance, openContexts,
                   nextHandle, cfElapsed, scrapeCalls, cacheAtCall, lastStore,
                   clearedSince, hitExpected, work, faults>>

closeBrowser ==
    /\ scrapePc = "idle"
    /\ browserInstance.present
    /\ browserInstance' = NoBrowser
    /\ openContexts' = {}
    /\ UNCHANGED <<clock, cachedScrapedData, nextHandle, scrapePc, attempt,
                   page, context, closing, cfElapsed, scraped, scrapeRet,
                   scrapeCalls, cacheAtCall, lastStore, clearedSince,
                   hitExpected, work, thisAttempt, prevAttempt, faults>>

clearScraperCache ==
    /\ scrapePc = "idle"
    /\ cachedScrapedData.present
    /\ cachedScrapedData' = NoCache
    /\ clearedSince' = TRUE
    /\ UNCHANGED <<clock, browserInstance, openContexts, nextHandle, scrapePc,
                   attempt, page, context, closing, cfElapsed, scraped,
                   scrapeRet, scrapeCalls, cacheAtCall, lastStore, hitExpected,
                   work, thisAttempt, prevAttempt, faults>>

\* the browser process dies between two attempts or two calls
BrowserDisconnect ==
    /\ scrapePc \in {"idle", "backoff"}
    /\ browserInstance.present /\ browserInstance.connected
    /\ faults < MaxFaults
    /\ faults' = faults + 1
    /\ browserInstance' = [browserInstance EXCEPT !.connected = FALSE]
    /\ openContexts' = {}
    /\ UNCHANGED <<clock, cachedScrapedData, nextHandle, scrapePc, attempt,
                   page, context, closing, cfElapsed, scraped, scrapeRet,
                   scrapeCalls, cacheAtCall, lastStore, clearedSince,
                   hitExpected, work, thisAttempt, prevAttempt>>

\* a minute passes between two calls (the clock is only compared with the
\* timestamp of the cache)
ClockTick ==
    /\ scrapePc = "idle"
    /\ cachedScrapedData.present
    /\ clock < MaxClock
    /\ clock' = clock + 1
    /\ UNCHANGED <<cachedScrapedData, browserInstance, openContexts,
                   nextHandle, scrapePc, attempt, page, context, closing,
                   cfElapsed, scraped, scrapeRet, scrapeCalls, cacheAtCall,
                   lastStore, clearedSince, hitExpected, work, thisAttempt,
                   prevAttempt, faults>>

----------------------------------------------------------------------------
(* Two callers of saveStationMetadata for one station.                     *)

VARIABLES
    metaFirst         \* (history) the createdAt stored by the first setDoc of the station

MaxMetaTime == 3
MetaStation == "s1"
NoFirst == [written |-> FALSE, createdAt |-> 0]

MetaRaceInit == metaFirst = NoFirst

CallSaveStationMetadata(m) ==
    /\ metaPc[m] = "idle"
    /\ saveStationMetadata(m, MetaStation)
    /\ UNCHANGED metaFirst

MetaGetDoc(m) == metaGetDocResolve(m) /\ UNCHANGED metaFirst

MetaSetDoc(m) ==
    /\ metaSetDocResolve(m)
    /\ metaFirst' = IF metaFirst.written THEN metaFirst
                    ELSE [written |-> TRUE, createdAt |-> metaArg[m].createdAt]

MetaReject(m) == metaReject(m) /\ UNCHANGED metaFirst

\* a second passes while a call is waiting for Firestore, or between two calls
MetaTick ==
    /\ now < MaxMetaTime
    /\ \E m \in MetaCalls : metaPc[m] # "idle"
    /\ now' = now + 1
    /\ UNCHANGED <<metaVars, metaFirst>>

----------------------------------------------------------------------------
(* Two callers of updateAQIData for one station.                           *)

RaceStation == "s1"
RaceAqi == [c \in Calls |-> IF c = "c1" THEN Num(287) ELSE Num(120)]

CallForStation(c) ==
    /\ pc[c] = "idle"
    /\ updateAQIData(c, RaceStation, RaceAqi[c], Num(196), Num(315), "sensor", "undefined")
    /\ UNCHANGED <<env, now, setOp, setCount, syncDeadline, docRef, readingsCol, rtdb, nextId>>

----------------------------------------------------------------------------
(* Two scrapeAQIIn calls that overlap.  Both work on the module-level       *)
(* browserInstance and cachedScrapedData; each has its own locals.  The     *)
(* page operations of an attempt succeed here and show no challenge, and an *)
(* attempt's context and page are opened and closed with its navigation.    *)

VARIABLES
    oPc,              \* per call: idle | getBrowser | launching | newContext | goto | evaluate | done
    oAttempt,         \* per call: loop variable attempt (0: returned from the cache)
    oBrowser,         \* per call: local constant browser (0: none yet)
    oSaw,             \* per call (history): getBrowser found a connected browser
    oOwn,             \* per call (history): the browser its chromium.launch produced
    oNavs,            \* per call (history): number of page.goto calls made
    oRet,             \* per call: the value returned
    liveBrowsers      \* browser processes launched and not closed

overlapVars == <<oPc, oAttempt, oBrowser, oSaw, oOwn, oNavs, oRet, liveBrowsers>>

Scrapers == {"x", "y"}

\* the variables of the scraper that belong to a single call, and the clock
scrapeLocals == <<clock, openContexts, scrapePc, attempt, page, context, closing,
                  cfElapsed, scraped, scrapeRet, scrapeCalls, cacheAtCall, lastStore,
                  clearedSince, hitExpected, work, thisAttempt, prevAttempt, faults>>

OverlapInit ==
    /\ oPc = [k \in Scrapers |-> "idle"]
    /\ oAttempt = [k \in Scrapers |-> 0]
    /\ oBrowser = [k \in Scrapers |-> 0]
    /\ oSaw = [k \in Scrapers |-> FALSE]
    /\ oOwn = [k \in Scrapers |-> 0]
    /\ oNavs = [k \in Scrapers |-> 0]
    /\ oRet = [k \in Scrapers |-> Null]
    /\ liveBrowsers = {}

\* scrapeAQIIn up to its first await: the cache check, then attempt 1
ScrapeAQIInOf(k) ==
    /\ oPc[k] = "idle"
    /\ IF cacheHit
       THEN /\ oPc' = [oPc EXCEPT ![k] = "done"]
            /\ oRet' = [oRet EXCEPT ![k] = cachedScrapedData.data]
            /\ UNCHANGED oAttempt
       ELSE /\ oPc' = [oPc EXCEPT ![k] = "getBrowser"]
            /\ oAttempt' = [oAttempt EXCEPT ![k] = 1]
            /\ UNCHANGED oRet
    /\ UNCHANGED <<oBrowser, oSaw, oOwn, oNavs, liveBrowsers>>
    /\ UNCHANGED <<browserInstance, cachedScrapedData, nextHandle, scrapeLocals>>

\* getBrowser up to its await: the held browser, or chromium.launch is issued
getBrowser(k) ==
    /\ oPc[k] = "getBrowser"
    /\ oSaw' = [oSaw EXCEPT ![k] = browserInstance.present /\ browserInstance.connected]
    /\ IF browserInstance.present /\ browserInstance.connected
       THEN /\ oBrowser' = [oBrowser EXCEPT ![k] = browserInstance.id]
            /\ oPc' = [oPc EXCEPT ![k] = "newContext"]
       ELSE /\ oPc' = [oPc EXCEPT ![k] = "launching"]
            /\ UNCHANGED oBrowser
    /\ UNCHANGED <<oAttempt, oOwn, oNavs, oRet, liveBrowsers>>
    /\ UNCHANGED <<browserInstance, cachedScrapedData, nextHandle, scrapeLocals>>

\* a variant: a launch that resolves while a connected browser is held is
\* closed again and the call goes on with the browser held
launchResolveKeepsHeld(k) ==
    /\ oPc[k] = "launching"
    /\ nextHandle' = nextHandle + 1
    /\ oOwn' = [oOwn EXCEPT ![k] = nextHandle]
    /\ IF browserInstance.present /\ browserInstance.connected
       THEN /\ oBrowser' = [oBrowser EXCEPT ![k] = browserInstance.id]
            /\ UNCHANGED <<browserInstance, liveBrowsers>>
       ELSE /\ browserInstance' = [present |-> TRUE, id |-> nextHandle, connected |-> TRUE]
            /\ liveBrowsers' = liveBrowsers \cup {nextHandle}
            /\ oBrowser' = [oBrowser EXCEPT ![k] = nextHandle]
    /\ oPc' = [oPc EXCEPT ![k] = "newContext"]
    /\ UNCHANGED <<oAttempt, oSaw, oNavs, oRet>>
    /\ UNCHANGED <<cachedScrapedData, scrapeLocals>>

\* browserInstance = await chromium.launch(...); return browserInstance
launchResolve(k) ==
    /\ oPc[k] = "launching"
    /\ browserInstance' = [present |-> TRUE, id |-> nextHandle, connected |-> TRUE]
    /\ nextHandle' = nextHandle + 1
    /\ liveBrowsers' = liveBrowsers \cup {nextHandle}
    /\ oOwn' = [oOwn EXCEPT ![k] = nextHandle]
    /\ oBrowser' = [oBrowser EXCEPT ![k] = nextHandle]
    /\ oPc' = [oPc EXCEPT ![k] = "newContext"]
    /\ UNCHANGED <<oAttempt, oSaw, oNavs, oRet>>
    /\ UNCHANGED <<cachedScrapedData, scrapeLocals>>

\* browser.newContext, context.newPage, applyAdvancedStealth
newContextOf(k) ==
    /\ oPc[k] = "newContext"
    /\ oPc' = [oPc EXCEPT ![k] = "goto"]
    /\ UNCHANGED <<oAttempt, oBrowser, oSaw, oOwn, oNavs, oRet, liveBrowsers>>
    /\ UNCHANGED <<browserInstance, cachedScrapedData, nextHandle, scrapeLocals>>

\* page.goto and waitForCloudflare resolve
gotoOf(k) ==
    /\ oPc[k] = "goto"
    /\ oNavs' = [oNavs EXCEPT ![k] = @ + 1]
    /\ oPc' = [oPc EXCEPT ![k] = "evaluate"]
    /\ UNCHANGED <<oAttempt, oBrowser, oSaw, oOwn, oRet, liveBrowsers>>
    /\ UNCHANGED <<browserInstance, cachedScrapedData, nextHandle, scrapeLocals>>

\* page.evaluate resolves: zero is retried, a value is cached and returned
evaluateOf(k) ==
    /\ oPc[k] = "evaluate"
    /\ \E data \in Extracted :
          IF data.delhiAqi = 0
          THEN /\ IF oAttempt[k] < maxRetries
                  THEN /\ oAttempt' = [oAttempt EXCEPT ![k] = @ + 1]
                       /\ oPc' = [oPc EXCEPT ![k] = "getBrowser"]
                  ELSE /\ oPc' = [oPc EXCEPT ![k] = "done"]
                       /\ UNCHANGED oAttempt
               /\ UNCHANGED <<oRet, cachedScrapedData>>
          ELSE /\ cachedScrapedData' = [present |-> TRUE, data |-> buildResult(data),
                                        timestamp |-> clock]
               /\ oRet' = [oRet EXCEPT ![k] = buildResult(data)]
               /\ oPc' = [oPc EXCEPT ![k] = "done"]
               /\ UNCHANGED oAttempt
    /\ UNCHANGED <<oBrowser, oSaw, oOwn, oNavs, liveBrowsers>>
    /\ UNCHANGED <<browserInstance, nextHandle, scrapeLocals>>

----------------------------------------------------------------------------
(* GET /api/weather: the fallback chain.                                   *)

VARIABLES
    wPc,              \* GET: idle | accuFetch | accuJson | waqi | scraped | done
    wQueried,         \* (history) the tiers queried, in order
    wOut,             \* (history) per tier: "" | data | null | threw
    wWhy,             \* (history) why fetchAccuWeather returned null
    wData,            \* what the tier that had data returned
    wResp             \* the response

weatherVars == <<wPc, wQueried, wOut, wWhy, wData, wResp>>

Tiers == <<"accuweather", "waqi", "scraped">>
TierNames == {"accuweather", "waqi", "scraped"}
\* current conditions of AccuWeather: Temperature and Wind speed in tenths
AccuConditions == [temperature : {-15, 204, 205}, humidity : {40, 70}, windSpeed : {34, 35}]
\* a body that is no JSON, JSON null, [], [{}] or [conditions]
AccuBodies ==
    {[kind |-> k, first |-> [temperature |-> 0, humidity |-> 0, windSpeed |-> 0]] :
        k \in {"notJson", "null", "empty", "malformed"}}
    \cup {[kind |-> "conditions", first |-> c] : c \in AccuConditions}
AccuStatuses == {200, 401, 503}
\* what fetchWAQIData and getScrapedData hand back when they have data
TierData == [temperature : {18, 25}, humidity : {40, 70}, windSpeed : {3, 5}]

NoWeather == [temperature |-> 0, humidity |-> 0, windSpeed |-> 0]
NoWeatherResp == [status |-> 0, success |-> FALSE, source |-> "", temperature |-> 0,
                  humidity |-> 0, windSpeed |-> 0]

WeatherInit ==
    /\ wPc = "idle" /\ wQueried = <<>>
    /\ wOut = [t \in TierNames |-> ""]
    /\ wWhy = "" /\ wData = NoWeather /\ wResp = NoWeatherResp

\* Math.round of a value given in tenths
RoundTenths(x) == (x + 5) \div 10

\* NextResponse.json({ success: true, source, temperature, humidity, windSpeed, ... })
respond(source, d) ==
    /\ wResp' = [status |-> 200, success |-> TRUE, source |-> source,
                 temperature |-> d.temperature, humidity |-> d.humidity,
                 windSpeed |-> d.windSpeed]
    /\ wData' = d
    /\ wPc' = "done"
    /\ UNCHANGED wQueried

\* the outer catch of GET
weatherCatch ==
    /\ wResp' = [NoWeatherResp EXCEPT !.status = 500]
    /\ wPc' = "done"
    /\ UNCHANGED <<wQueried, wData>>

\* the next tier is awaited
query(tier, next) ==
    /\ wPc' = next
    /\ wQueried' = Append(wQueried, tier)
    /\ UNCHANGED <<wData, wResp>>

\* a variant: the scraper is asked before WAQI
afterAccuWeatherSkipsWaqi(d, why) ==
    /\ wOut' = [wOut EXCEPT !["accuweather"] = IF d = Null THEN "null" ELSE "data"]
    /\ wWhy' = why
    /\ IF d # Null THEN respond("accuweather", d) ELSE query("scraped", "scraped")

\* if (accuWeatherData) return ...; const waqiData = await fetchWAQIData()
afterAccuWeather(d, why) ==
    /\ wOut' = [wOut EXCEPT !["accuweather"] = IF d = Null THEN "null" ELSE "data"]
    /\ wWhy' = why
    /\ IF d # Null THEN respond("accuweather", d) ELSE query("waqi", "waqi")

GetWeather ==
    /\ wPc = "idle"
    /\ query("accuweather", "accuFetch")
    /\ UNCHANGED <<wOut, wWhy>>

\* fetch() rejects: the catch of fetchAccuWeather returns null
AccuFetchRejects ==
    /\ wPc = "accuFetch"
    /\ afterAccuWeather(Null, "network")

\* fetch() resolves with a response; !response.ok returns null
AccuResponse ==
    /\ wPc = "accuFetch"
    /\ \E status \in AccuStatuses :
          IF status # 200
          THEN afterAccuWeather(Null, IF status = 401 THEN "401" ELSE "503")
          ELSE /\ wPc' = "accuJson"
               /\ UNCHANGED <<wQueried, wOut, wWhy, wData, wResp>>

\* response.json() settles: a parse error and a body without Temperature throw into
\* the catch; null and [] return null; otherwise the first element is converted
AccuJson ==
    /\ wPc = "accuJson"
    /\ \E body \in AccuBodies :
          IF body.kind # "conditions"
          THEN afterAccuWeather(Null, body.kind)
          ELSE afterAccuWeather([temperature |-> RoundTenths(body.first.temperature),
                                 humidity |-> body.first.humidity,
                                 windSpeed |-> RoundTenths(body.first.windSpeed)], "")

\* fetchWAQIData() resolves: if (waqiData) return ...; else await getScrapedData()
WaqiReturns ==
    /\ wPc = "waqi"
    /\ \E d \in TierData \cup {Null} :
          /\ wOut' = [wOut EXCEPT !["waqi"] = IF d = Null THEN "null" ELSE "data"]
          /\ IF d # Null THEN respond("waqi", d) ELSE query("scraped", "scraped")
    /\ UNCHANGED wWhy

\* fetchWAQIData() rejects
WaqiThrows ==
    /\ wPc = "waqi"
    /\ wOut' = [wOut EXCEPT !["waqi"] = "threw"]
    /\ weatherCatch
    /\ UNCHANGED wWhy

\* getScrapedData() resolves: if (scrapedData) return ...; else the static data
ScrapedReturns ==
    /\ wPc = "scraped"
    /\ \E d \in TierData \cup {Null} :
          /\ wOut' = [wOut EXCEPT !["scraped"] = IF d = Null THEN "null" ELSE "data"]
          /\ IF d # Null THEN respond("scraped", d)
             ELSE respond("fallback", [temperature |-> 20, humidity |-> 50, windSpeed |-> 5])
    /\ UNCHANGED wWhy

\* getScrapedData() rejects
ScrapedThrows ==
    /\ wPc = "scraped"
    /\ wOut' = [wOut EXCEPT !["scraped"] = "threw"]
    /\ weatherCatch
    /\ UNCHANGED wWhy

----------------------------------------------------------------------------
(* subscribeToAQIData and the unsubscribe functions it returns.            *)

VARIABLES
    subNow,               \* Date.now(), milliseconds
    stations,             \* the 'stations' node of the live store: per key, a value or 0
    subPc,                \* per subscriber: none | noop | subscribed | unsubscribed
    subscriptionId,       \* per subscriber: the Date.now() of its `sub_${Date.now()}`
    listeners,            \* subscribers whose handleValue is attached to stationsRef
    initialDue,           \* subscribers whose first 'value' event is still to come
    activeSubscriptions,  \* the Map: subscription id -> the subscriber whose callback it holds
    changes,              \* (history) per subscriber: changes of the node while subscribed
    cbCalls,              \* (history) per subscriber: callback invocations for those changes
    cbLast                \* per subscriber: the data of the last callback invocation

subVars == <<subNow, stations, subPc, subscriptionId, listeners, initialDue,
             activeSubscriptions, changes, cbCalls, cbLast>>

MaxSubNow == 1
MaxChanges == 3
Subscribers == {"a", "b"}
LiveKeys == {"s1", "s2"}
LiveValues == {0, 1, 2}          \* 0: the key is absent
NoSubscriber == "none"
SubIds == 0..(MaxSubNow + 1)
EmptyStations == [k \in LiveKeys |-> 0]

\* nobody has subscribed yet
SubIdle ==
    /\ subNow = 0
    /\ subPc = [u \in Subscribers |-> "none"]
    /\ subscriptionId = [u \in Subscribers |-> 0]
    /\ listeners = {}
    /\ initialDue = {}
    /\ activeSubscriptions = [i \in SubIds |-> NoSubscriber]
    /\ changes = [u \in Subscribers |-> 0]
    /\ cbCalls = [u \in Subscribers |-> 0]
    /\ cbLast = [u \in Subscribers |-> EmptyStations]

SubInit == stations = EmptyStations /\ SubIdle

\* getFirebaseDatabase(): null on the server or without an app
getFirebaseDatabase == env.window /\ env.apiKey /\ env.projectId

\* snapshot.val() of a node without children is null
snapshotVal(node) == IF node = EmptyStations THEN Null ELSE node

\* handleValue: if (data) callback(data)
handleValue(u, node) == snapshotVal(node) # Null

subscribeToAQIData(u) ==
    /\ subPc[u] = "none"
    /\ IF ~isFirebaseConfigured \/ ~getFirebaseDatabase
       THEN /\ subPc' = [subPc EXCEPT ![u] = "noop"]
            /\ UNCHANGED <<subscriptionId, listeners, initialDue, activeSubscriptions>>
       ELSE /\ subPc' = [subPc EXCEPT ![u] = "subscribed"]
            /\ subscriptionId' = [subscriptionId EXCEPT ![u] = subNow]
            /\ listeners' = listeners \cup {u}
            /\ initialDue' = initialDue \cup {u}
            /\ activeSubscriptions' = [activeSubscriptions EXCEPT ![subNow] = u]
    /\ UNCHANGED <<subNow, stations, changes, cbCalls, cbLast>>

\* the first 'value' event of a listener: the node as it is
InitialValue(u) ==
    /\ u \in initialDue /\ u \in listeners
    /\ initialDue' = initialDue \ {u}
    /\ cbLast' = [cbLast EXCEPT ![u] = IF handleValue(u, stations) THEN stations ELSE @]
    /\ UNCHANGED <<subNow, stations, subPc, subscriptionId, listeners,
                   activeSubscriptions, changes, cbCalls>>

\* a write changes the node: every attached listener gets a 'value' event
StationsChange ==
    /\ \A u \in Subscribers : changes[u] < MaxChanges
    /\ \E k \in LiveKeys, v \in LiveValues :
          /\ v # stations[k]
          /\ stations' = [stations EXCEPT ![k] = v]
          /\ changes' = [u \in Subscribers |->
                            IF u \in listeners THEN changes[u] + 1 ELSE changes[u]]
          /\ cbCalls' = [u \in Subscribers |->
                            IF u \in listeners /\ handleValue(u, stations')
                            THEN cbCalls[u] + 1 ELSE cbCalls[u]]
          /\ cbLast' = [u \in Subscribers |->
                            IF u \in listeners /\ handleValue(u, stations')
                            THEN stations' ELSE cbLast[u]]
    /\ initialDue' = initialDue \ listeners
    /\ UNCHANGED <<subNow, subPc, subscriptionId, listeners, activeSubscriptions>>

\* the function subscribeToAQIData returned: off(...), activeSubscriptions.delete(id)
unsubscribe(u) ==
    /\ subPc[u] = "subscribed"
    /\ subPc' = [subPc EXCEPT ![u] = "unsubscribed"]
    /\ listeners' = listeners \ {u}
    /\ initialDue' = initialDue \ {u}
    /\ activeSubscriptions' = [activeSubscriptions EXCEPT ![subscriptionId[u]] = NoSubscriber]
    /\ UNCHANGED <<subNow, stations, subscriptionId, changes, cbCalls, cbLast>>

\* the no-op returned when nothing was subscribed
unsubscribeNoop(u) ==
    /\ subPc[u] = "noop"
    /\ subPc' = [subPc EXCEPT ![u] = "unsubscribed"]
    /\ UNCHANGED <<subNow, stations, subscriptionId, listeners, initialDue,
                   activeSubscriptions, changes, cbCalls, cbLast>>

SubTick ==
    /\ subNow < MaxSubNow
    /\ subNow' = subNow + 1
    /\ UNCHANGED <<stations, subPc, subscriptionId, listeners, initialDue,
                   activeSubscriptions, changes, cbCalls, cbLast>>

----------------------------------------------------------------------------
(* getStationStats                                                         *)

VARIABLES
    statReadings,     \* the aqi of the station's readings in range, newest first, in tenths
    statPc,           \* getStationStats: idle | query | done
    statQuery,        \* (history) how getAQIReadings ended: "" | ok | failed
    statResult        \* the FirestoreResult returned

statVars == <<statReadings, statPc, statQuery, statResult>>

MaxStatReadings == 3
\* aqi values a 'readings' document can hold, in tenths: 0, 50.4, 287, 500, NaN
StatAqis == {Num(0), Num(504), Num(2870), Num(5000), NaNv}
NoStats == [success |-> FALSE, error |-> "", avgAqi |-> Num(0), maxAqi |-> Num(0),
            minAqi |-> Num(0), readingCount |-> 0]

StatHistories == UNION {[1..n -> StatAqis] : n \in 0..MaxStatReadings}
StatIdle == statPc = "idle" /\ statQuery = "" /\ statResult = NoStats
StatInit == statReadings = <<>> /\ StatIdle

HasNaN(vs) == \E i \in 1..Len(vs) : vs[i].k # "number"

RECURSIVE sumTenths(_, _)
sumTenths(vs, i) == IF i > Len(vs) THEN 0 ELSE vs[i].v + sumTenths(vs, i + 1)

\* Math.round(aqiValues.reduce((a, b) => a + b, 0) / aqiValues.length), in tenths
avgOf(vs) ==
    IF HasNaN(vs) THEN NaNv
    ELSE Num(10 * ((2 * sumTenths(vs, 1) + 10 * Len(vs)) \div (20 * Len(vs))))

\* Math.max(...aqiValues): NaN if one of them is NaN
maxOf(vs) ==
    IF HasNaN(vs) THEN NaNv
    ELSE CHOOSE m \in {vs[i] : i \in 1..Len(vs)} : \A i \in 1..Len(vs) : vs[i].v <= m.v

\* Math.min(...aqiValues)
minOf(vs) ==
    IF HasNaN(vs) THEN NaNv
    ELSE CHOOSE m \in {vs[i] : i \in 1..Len(vs)} : \A i \in 1..Len(vs) : vs[i].v >= m.v

\* what getStationStats returns for the readings the query gave it
statsOf(vs) ==
    IF Len(vs) = 0
    THEN [NoStats EXCEPT !.success = TRUE]
    ELSE [success |-> TRUE, error |-> "", avgAqi |-> avgOf(vs), maxAqi |-> maxOf(vs),
          minAqi |-> minOf(vs), readingCount |-> Len(vs)]

\* getStationStats(stationId, days) up to the await inside getAQIReadings
GetStationStats ==
    /\ statPc = "idle"
    /\ IF ~isFirebaseConfigured
       THEN /\ statQuery' = "failed"
            /\ statResult' = [NoStats EXCEPT !.error = "Firebase not configured"]
            /\ statPc' = "done"
       ELSE IF ~getFirebaseFirestore
       THEN /\ statQuery' = "failed"
            /\ statResult' = [NoStats EXCEPT !.error = "Firestore not available"]
            /\ statPc' = "done"
       ELSE /\ statPc' = "query"
            /\ UNCHANGED <<statQuery, statResult>>
    /\ UNCHANGED statReadings

\* getDocs resolves with the documents
StatsQueryResolves ==
    /\ statPc = "query"
    /\ statQuery' = "ok"
    /\ statResult' = statsOf(statReadings)
    /\ statPc' = "done"
    /\ UNCHANGED statReadings

\* getDocs rejects: getAQIReadings returns { success: false, error }
StatsQueryRejects ==
    /\ statPc = "query"
    /\ statQuery' = "failed"
    /\ statResult' = [NoStats EXCEPT !.error = "FirebaseError"]
    /\ statPc' = "done"
    /\ UNCHANGED statReadings

----------------------------------------------------------------------------
(* Properties of the write path and of the admin form.                     *)

Returned(c) == pc[c] = "done" /\ result[c].settled
LiveFailed(c) == outcome[c].live \in {"rejected", "timeout", "threw"}
DurableFailed(c) == outcome[c].durable \in {"rejected", "timeout"}

\* C1: a call whose addDoc resolved and whose live-store write was rejected, threw
\* or timed out returns success = true with the id of the stored document, which
\* holds the reading.
C1_DurableSuccessLiveFailureIsSuccess ==
    \A c \in Calls :
        (Returned(c) /\ outcome[c].durable = "resolved" /\ LiveFailed(c)) =>
            /\ result[c].success
            /\ result[c].id = docRef[c]
            /\ \E d \in readingsCol : d.id = result[c].id /\ d.doc = docData(reading[c])

C1_Witness ==
    \E c \in Calls : /\ Returned(c) /\ outcome[c].durable = "resolved"
                     /\ outcome[c].live = "timeout" /\ result[c].success
                     /\ rtdb[reading[c].stationId] = NoEntry

\* C2: handleSubmit never shows a failure for a submission whose durable write
\* succeeded (addDoc resolved before its timer).
C2_NoFailureShownAfterDurableSuccess ==
    (uiResult.shown /\ outcome[UiCall].durable = "resolved") => uiResult.success

\* C3: when addDoc rejects or loses the race against the 10 s timer, the call
\* returns success = false with an error string, and no call issues addDoc more
\* than once.
C3_DurableFailureReturnedNotRetried ==
    \A c \in Calls :
        /\ addDocCount[c] <= 1
        /\ DurableFailed(c) =>
              /\ Returned(c)
              /\ ~result[c].success
              /\ result[c].error # ""
              /\ addDocCount[c] = 1
              /\ setCount[c] = 0

C3_Witness ==
    \E c \in Calls : /\ outcome[c].durable = "timeout" /\ Returned(c)
                     /\ ~result[c].success /\ now >= durableDeadline[c] + 1

\* C4: a reading with an empty stationId, an aqi that is no number in 0..500, or a
\* pm25 / pm10 that is no number is refused: failure, and neither write attempted.
ValidField(x) == x.k = "number"
ValidReading(r) ==
    /\ r.stationId # ""
    /\ r.aqi.k = "number" /\ r.aqi.v >= 0 /\ r.aqi.v <= 500
    /\ ValidField(r.pm25) /\ ValidField(r.pm10)

C4_InvalidReadingRefused ==
    \A c \in Calls :
        (pc[c] # "idle" /\ ~ValidReading(reading[c])) =>
            /\ addDocCount[c] = 0
            /\ setCount[c] = 0
            /\ Returned(c) /\ ~result[c].success

----------------------------------------------------------------------------
(* Properties of the HTTP handlers and of the batch update.                *)

InRange(x) == x.k = "number" /\ x.v >= 0 /\ x.v <= 500
OtherwiseValid(r) ==
    /\ r.stationId.k = "string" /\ r.stationId # Str("")
    /\ r.pollutants.k = "object"
    /\ r.pollutants.pm25.k = "number" /\ r.pollutants.pm10.k = "number"
NoStoreWritten ==
    /\ readingsCol = {}
    /\ rtdb = [s \in StationIds |-> NoEntry]
    /\ stationDocs = [s \in StationIds |-> NoStationDoc]
ErrorAt(i) == \E j \in 1..Len(postResp.errors) : postResp.errors[j].index = i

\* C5: POST accepts a reading's aqi exactly when it is a number in 0..500, bounds
\* included; a reading with another aqi gets a validation error (400 for a single
\* reading, an errors entry in a batch) and nothing is written to a store.
C5_AqiAcceptedIffInClosedRange ==
    /\ NoStoreWritten
    /\ postResp.status \in {200, 400} =>
          IF postReq.body.kind = "single"
          THEN LET r == postReq.body.readings[1]
               IN  /\ ~InRange(r.aqi) => postResp.status = 400 /\ ~postResp.success
                   /\ OtherwiseValid(r) =>
                         (InRange(r.aqi) <=> postResp.status = 200 /\ postResp.success)
          ELSE \A i \in 1..Len(postReq.body.readings) :
                  LET r == postReq.body.readings[i]
                  IN  /\ ~InRange(r.aqi) => ErrorAt(i - 1)
                      /\ OtherwiseValid(r) => (InRange(r.aqi) <=> ~ErrorAt(i - 1))

C5_Witness ==
    /\ postResp.status = 200 /\ postResp.success
    /\ postReq.body.kind = "single"
    /\ postReq.body.readings[1].aqi = Num(500)

\* C6: once batchUpdateRealtimeDB has started its updates, every update of the
\* batch has been issued, whatever the others did, and an update that resolved
\* is in the store, also after another update's rejection made the call fail.
BatchStarted ==
    \/ batchPc = "awaiting"
    \/ batchPc = "done" /\ batchResult.error \notin {"Realtime Database not configured",
                                                     "Database not available"}
C6_OneRejectionLeavesTheOthers ==
    BatchStarted =>
        \A i \in 1..Len(batch) :
            /\ updOp[i] # "none"
            /\ updOp[i] = "resolved" =>
                  /\ rtdb[batch[i].stationId].present
                  /\ rtdb[batch[i].stationId].aqi = batch[i].aqi

C6_Witness ==
    /\ Len(batch) = 3
    /\ batchPc = "done" /\ ~batchResult.success
    /\ updOp[1] = "rejected" /\ updOp[2] = "resolved" /\ updOp[3] = "resolved"
    /\ rtdb[batch[2].stationId].present /\ rtdb[batch[3].stationId].present
    /\ ~rtdb[batch[1].stationId].present

\* C7: getHistoricalData is called only for a request with a known range, a
\* station of the allow-list and, for range = custom, two parseable dates with
\* startDate <= endDate at most 90 days apart; any other request gets 400 with
\* success = false and no call.
ValidHistRequest(req) ==
    /\ (IF req.range = "" THEN "24h" ELSE req.range) \in {"24h", "7d", "30d", "custom"}
    /\ (IF req.station = "" THEN "aicte-delhi" ELSE req.station) \in DELHI_STATIONS
    /\ req.range = "custom" =>
          /\ req.startDate.k = "date" /\ req.endDate.k = "date"
          /\ req.startDate.v <= req.endDate.v
          /\ req.endDate.v - req.startDate.v <= MaxRangeDays * HoursPerDay

C7_StoreReadOnlyAfterValidation ==
    histResp.status # 0 =>
        /\ histCalls = 1 => ValidHistRequest(histReq)
        /\ ~ValidHistRequest(histReq) =>
              histResp.status = 400 /\ ~histResp.success /\ histCalls = 0

C7_Witness ==
    /\ histReq.range = "custom"
    /\ histReq.startDate = DateAt(0)
    /\ histReq.endDate = DateAt(MaxRangeDays * HoursPerDay + 1)
    /\ histResp.status = 400 /\ histCalls = 0

BothWritten(c) ==
    Returned(c) /\ outcome[c] = [durable |-> "resolved", live |-> "resolved"]

\* C14: a subscriber's callback is invoked for every change of the stations
\* node made while it is subscribed, also a change that leaves the node empty,
\* and for no change made after it unsubscribed.
C14_CallbackOnEveryChange ==
    \A u \in Subscribers :
        /\ cbCalls[u] = changes[u]
        /\ u \notin listeners => subPc[u] # "subscribed"

\* C15: while saveStationMetadata calls for one station succeed, interleaved or
\* not, the stored createdAt is the one the first write stored, and updatedAt is
\* the time of a call that succeeded.
C15_CreatedAtKeptUpdatedAtLast ==
    stationDocs[MetaStation].exists =>
        /\ metaFirst.written
        /\ stationDocs[MetaStation].createdAt = metaFirst.createdAt
        /\ \E m \in MetaCalls : /\ metaPc[m] = "done" /\ metaResult[m].success
                                 /\ stationDocs[MetaStation].updatedAt = metaArg[m].now

\* C16: once every call for a station has returned with both writes done, the
\* live entry holds the reading with the latest timestamp; and the live entry
\* is never older than a reading whose set() has been applied.
C16_LiveEntryIsLatestReading ==
    /\ (\A c \in Calls : BothWritten(c)) =>
          \E c \in Calls :
              /\ \A o \in Calls : reading[o].timestamp <= reading[c].timestamp
              /\ rtdb[RaceStation] = dataToSync(reading[c])
    /\ \A c \in Calls :
          setOp[c] = "resolved" => rtdb[RaceStation].lastUpdated >= reading[c].timestamp

\* C17: getStationStats fails when the query fails, returns the zero record
\* with success when there are no readings, and otherwise returns the number of
\* readings, their maximum and minimum aqi and the rounded mean, with
\* minAqi <= avgAqi <= maxAqi.
NumLeq(x, y) == x.k = "number" /\ y.k = "number" /\ x.v <= y.v
C17_StatsOfReadings ==
    statPc = "done" =>
        LET vs == statReadings
            n == Len(vs)
            r == statResult
        IN  IF statQuery = "failed" THEN ~r.success /\ r.error # ""
            ELSE IF n = 0
            THEN r = [NoStats EXCEPT !.success = TRUE]
            ELSE /\ r.success /\ r.readingCount = n
                 /\ \A i \in 1..n : NumLeq(vs[i], r.maxAqi) /\ NumLeq(r.minAqi, vs[i])
                 /\ \E i \in 1..n : vs[i] = r.maxAqi
                 /\ \E i \in 1..n : vs[i] = r.minAqi
                 /\ r.avgAqi.k = "number" /\ r.avgAqi.v % 10 = 0
                 /\ 2 * (n * r.avgAqi.v - sumTenths(vs, 1)) \in (-10 * n + 1)..(10 * n)
                 /\ NumLeq(r.minAqi, r.avgAqi) /\ NumLeq(r.avgAqi, r.maxAqi)

\* C18: a reading saved with both writes succeeding has a durable document under
\* a generated id with its stationId, aqi, pollutants, timestamp and source, and
\* with metadata only when the reading's metadata is set and not empty; the
\* live-store entry of its station has its aqi, pm25 and pm10 and its timestamp
\* as lastUpdated.
C18_SavedReadingContents ==
    /\ \A d1, d2 \in readingsCol : d1.id = d2.id => d1 = d2
    /\ \A c \in Calls :
          BothWritten(c) =>
             LET r == reading[c]
                 e == rtdb[r.stationId]
             IN  /\ result[c].success /\ result[c].id >= 1
                 /\ \E d \in readingsCol :
                       /\ d.id = result[c].id
                       /\ d.doc.stationId = r.stationId /\ d.doc.aqi = r.aqi
                       /\ d.doc.pm25 = r.pm25 /\ d.doc.pm10 = r.pm10
                       /\ d.doc.timestamp = r.timestamp /\ d.doc.source = r.source
                       /\ d.doc.hasMetadata <=> r.metadata = "notes"
                 /\ e.present
                 /\ e.aqi = r.aqi /\ e.pm25 = r.pm25 /\ e.pm10 = r.pm10
                 /\ e.lastUpdated = r.timestamp

C18_Witness ==
    \E c \in Calls :
        /\ BothWritten(c) /\ reading[c].metadata = "empty"
        /\ reading[c].stationId = "s1" /\ reading[c].aqi = Num(287)
        /\ now > reading[c].timestamp
        /\ rtdb["s1"].aqi = Num(287) /\ rtdb["s1"].lastUpdated = reading[c].timestamp
        /\ \E d \in readingsCol : d.id = result[c].id /\ ~d.doc.hasMetadata

\* C19: a call issues its live-store set() only after its own addDoc resolved
\* while the call was waiting for it; a call whose addDoc threw, rejected or
\* timed out issues none, also when the timed-out addDoc resolves later.
C19_LiveWriteOnlyAfterDurableSuccess ==
    \A c \in Calls :
        /\ setCount[c] > 0 => addDocOp[c] = "resolved" /\ outcome[c].durable = "resolved"
        /\ setOp[c] # "none" => setCount[c] = 1
        /\ (DurableFailed(c) \/ outcome[c].durable = "threw") =>
              setCount[c] = 0 /\ setOp[c] = "none"

C19_Witness ==
    \E c \in Calls :
        /\ Returned(c) /\ outcome[c].durable = "timeout"
        /\ addDocOp[c] = "resolved" /\ (\E d \in readingsCol : d.call = c)
        /\ setCount[c] = 0 /\ setOp[c] = "none"

\* C12: GET /api/weather queries AccuWeather, WAQI and the scraper in this order,
\* each only after the tiers before it returned no data; the source tag of the
\* response names the first tier that returned data, and it is 'fallback'
\* exactly when all three returned null.
IsPrefix(q, t) == Len(q) <= Len(t) /\ \A i \in 1..Len(q) : q[i] = t[i]
C12_TiersInOrderSourceIsFirstWithData ==
    /\ IsPrefix(wQueried, Tiers)
    /\ \A i \in 1..Len(Tiers) :
          /\ (i <= Len(wQueried) /\ i > 1) => wOut[Tiers[i - 1]] = "null"
          /\ i > Len(wQueried) => wOut[Tiers[i]] = ""
    /\ (wPc = "done" /\ wResp.status = 200) =>
          /\ \A t \in TierNames : wResp.source = t <=> wOut[t] = "data"
          /\ wResp.source = "fallback" <=> \A t \in TierNames : wOut[t] = "null"
          /\ wResp.source \in TierNames \cup {"fallback"}
          /\ wResp.source \in TierNames => wResp.temperature = wData.temperature
          /\ wResp.source = "fallback" => wResp.temperature = 20
    /\ (wPc = "done" /\ wResp.status # 200) =>
          wResp.source = "" /\ \E t \in TierNames : wOut[t] = "threw"

C12_Witness ==
    /\ wPc = "done" /\ wResp.source = "scraped" /\ wResp.temperature = 25
    /\ wQueried = Tiers /\ wWhy = "malformed"
    /\ wOut = [t \in TierNames |-> IF t = "scraped" THEN "data" ELSE "null"]

\* C13: for a batch body every reading is validated on its own: errors has one
\* entry, with the reading's index, for each invalid reading; validatedReadings
\* holds the valid readings in their order; success is true exactly when no
\* reading is invalid; and no store is written.
ValidJsonReading(r) == r # Null /\ OtherwiseValid(r) /\ InRange(r.aqi)
SourceDefaulted(rs) == [i \in 1..Len(rs) |-> withSource(rs[i])]
C13_BatchValidatedItemByItem ==
    /\ NoStoreWritten
    /\ (postReq.body.kind = "batch" /\ postResp.status \notin {0, 401}) =>
          LET rs == postReq.body.readings
              invalid == {i \in 1..Len(rs) : ~ValidJsonReading(rs[i])}
          IN  /\ postResp.status = 200
              /\ Len(postResp.errors) = Cardinality(invalid)
              /\ \A i \in 1..Len(rs) : i \in invalid <=> ErrorAt(i - 1)
              /\ postResp.validatedReadings = SourceDefaulted(SelectSeq(rs, ValidJsonReading))
              /\ postResp.success <=> invalid = {}

\* C28: batchUpdateRealtimeDB returns success exactly when the update of every
\* station of the batch resolved; when an update rejected it returns failure
\* with an error string; and when the Realtime Database is not configured or
\* not available it returns failure and issues no update.
C28_BatchSuccessIffAllResolved ==
    batchPc = "done" =>
        IF BatchStarted
        THEN /\ batchResult.success <=> \A i \in 1..Len(batch) : updOp[i] = "resolved"
             /\ ~batchResult.success =>
                   /\ batchResult.error # ""
                   /\ \E i \in 1..Len(batch) : updOp[i] = "rejected"
        ELSE /\ ~batchResult.success /\ batchResult.error # ""
             /\ \A i \in DOMAIN updOp : updOp[i] = "none"
             /\ rtdb = [s \in StationIds |-> NoEntry]

C28_Witness ==
    /\ batchPc = "done" /\ ~batchResult.success /\ Len(batch) = 3
    /\ updOp[1] = "resolved" /\ updOp[2] = "rejected" /\ updOp[3] = "resolved"
    /\ batchResult.error = "FirebaseError"

\* C21: every browser context an attempt of scrapeAQIIn created is closed before
\* the next attempt starts or the call returns, also when the attempt ended by an
\* exception: between two attempts and after the return no context is open.
C21_NoContextLeftOpen ==
    scrapePc \in {"idle", "getBrowser", "backoff"} => openContexts = {}

\* C22: no failed attempt closes the shared browser.  The handle is reset to null
\* only by closeBrowser, which runs between calls, and no step of a scrapeAQIIn
\* call replaces or drops a connected browser: the browser launched earlier is
\* still the one held when the call has failed.
C22_FailedAttemptKeepsBrowser ==
    [][/\ (browserInstance.present /\ ~browserInstance'.present) =>
              (scrapePc = "idle" /\ scrapePc' = "idle")
       /\ (scrapePc # "idle" /\ browserInstance.present /\ browserInstance.connected) =>
              (browserInstance'.present /\ browserInstance'.id = browserInstance.id)
      ]_scrapeVars

C22_Witness ==
    /\ scrapePc = "idle" /\ scrapeCalls = 2 /\ scrapeRet = Null
    /\ ~lastStore.present
    /\ thisAttempt.n = maxRetries /\ thisAttempt.end = "catch"
    /\ prevAttempt.end = "continue"
    /\ browserInstance = [present |-> TRUE, id |-> 1, connected |-> TRUE]

\* C23: with calls one after another, the getBrowser of an attempt launches exactly
\* when the handle is null or disconnected at the attempt's start and otherwise
\* hands back the browser held; a launch is the only step of a call that gives
\* the handle a new browser.  So there are as many launches as attempts that
\* started without a connected browser.
Connected == browserInstance.present /\ browserInstance.connected
C23_LaunchIffNoConnectedBrowser ==
    [][/\ (scrapePc = "getBrowser" /\ scrapePc' # "getBrowser") =>
              /\ scrapePc' = (IF Connected THEN "newContext" ELSE "launching")
              /\ browserInstance' = browserInstance
       /\ (scrapePc' = "getBrowser" /\ scrapePc # "getBrowser") =>
              browserInstance' = browserInstance
       /\ browserInstance'.id # browserInstance.id =>
              \/ scrapePc = "launching" /\ scrapePc' = "newContext" /\ ~Connected
              \/ scrapePc = "idle" /\ scrapePc' = "idle" /\ browserInstance' = NoBrowser
      ]_scrapeVars

\* the second attempt runs in the browser the first one launched
C23_Witness ==
    /\ scrapePc = "newContext" /\ attempt = 2
    /\ work.launched /\ thisAttempt.n = 2 /\ prevAttempt.n = 1
    /\ browserInstance = [present |-> TRUE, id |-> 1, connected |-> TRUE]
    /\ nextHandle = 3

\* C25: waitForCloudflare returns true from a check made before maxWaitTime (30 s)
\* elapsed, the first one that finds no challenge marker; a check that finds one
\* waits and checks again; it returns false only once the elapsed time has
\* reached maxWaitTime, every check before having found a marker.  The attempt it
\* returned false to extracts nothing and leaves the cache as it is.
C25_CloudflareWait ==
    [][/\ (scrapePc = "waitCF" /\ scrapePc' = "evaluate") => cfElapsed < maxWaitTime
       /\ (scrapePc = "waitCF" /\ scrapePc' = "closePage") =>
              cfElapsed >= maxWaitTime /\ closing' = "blocked"
       /\ (scrapePc = "waitCF" /\ scrapePc' = "waitCF" /\ cfElapsed' # cfElapsed) =>
              cfElapsed < maxWaitTime /\ cfElapsed' > cfElapsed
       /\ (scrapePc = "waitCF" /\ cfElapsed >= maxWaitTime) => scrapePc' # "waitCF"
       /\ closing = "blocked" =>
              /\ scrapePc \in {"closePage", "closeContext"}
              /\ thisAttempt.aqi = -1 /\ scraped = Null
              /\ thisAttempt'.aqi = -1
              /\ cachedScrapedData' = cachedScrapedData
      ]_scrapeVars

C25_Witness ==
    /\ scrapePc = "closeContext" /\ closing = "blocked"
    /\ attempt = 2 /\ prevAttempt.end = "continue" /\ prevAttempt.aqi = 0
    /\ thisAttempt.aqi = -1 /\ work.navigated
    /\ ~cachedScrapedData.present

\* C24: nothing guards the handle or the cache between overlapping calls.  A call
\* that finds no connected browser launches its own and works in it, whatever
\* launch of another call is in flight; the handle holds the browser assigned
\* last and a replaced browser keeps running with no reference to it; a call
\* that missed the cache makes its own navigation in each of its attempts.
InAttempt(k) == oPc[k] \in {"newContext", "goto", "evaluate"}
C24_OverlappingCallsShareNothing ==
    /\ \A k \in Scrapers :
          InAttempt(k) =>
              /\ oBrowser[k] \in liveBrowsers
              /\ ~oSaw[k] => oBrowser[k] = oOwn[k]
    /\ \A k \in Scrapers :
          /\ (oPc[k] = "done" /\ oAttempt[k] > 0) => oNavs[k] = oAttempt[k]
          /\ oPc[k] = "evaluate" => oNavs[k] = oAttempt[k]
    /\ browserInstance.present =>
          browserInstance.connected /\ browserInstance.id = nextHandle - 1
    /\ liveBrowsers = 1..(nextHandle - 1)

\* both calls missed the cache and found no browser: two browsers run, the handle
\* holds the one of y, the one of x is referenced by x alone, both navigated
C24_Witness ==
    /\ oPc["x"] = "done" /\ oPc["y"] = "done"
    /\ oAttempt["x"] = 1 /\ oAttempt["y"] = 1
    /\ oOwn["x"] = 1 /\ oOwn["y"] = 2
    /\ browserInstance = [present |-> TRUE, id |-> 2, connected |-> TRUE]
    /\ liveBrowsers = {1, 2}
    /\ oNavs["x"] = 1 /\ oNavs["y"] = 1
    /\ oRet["x"] # Null /\ oRet["y"] # Null

\* C26: every saveAQIReading call that started a write eventually returns, also
\* when addDoc and set() never settle; a call whose durable write timed out
\* returned failure, and a call whose live-store write timed out returned success.
C26_SaveEventuallyReturns ==
    /\ \A c \in Calls : (pc[c] \in {"addDoc", "sync"}) ~> (pc[c] = "done")
    /\ [](\A c \in Calls :
            /\ outcome[c].durable = "timeout" => pc[c] = "done" /\ ~result[c].success
            /\ outcome[c].live = "timeout" => pc[c] = "done" /\ result[c].success)

C26_Witness ==
    /\ pc[UiCall] = "done" /\ result[UiCall].success
    /\ outcome[UiCall].live = "timeout" /\ setOp[UiCall] = "pending"
    /\ now = FIRESTORE_TIMEOUT - 1 + RTDB_TIMEOUT

\* C27: once saveAQIReading returned success = false, the reading is in neither
\* store: the call has no document in 'readings' and never issued a set(), also
\* when the failure was the 10 s timeout and addDoc was still in flight.
C27_FailedSaveStoresNothing ==
    \A c \in Calls :
        (pc[c] = "done" /\ ~result[c].success) =>
            /\ ~\E d \in readingsCol : d.call = c
            /\ setCount[c] = 0

\* C30: the number of entries of activeSubscriptions equals the number of
\* subscriptions created and not yet unsubscribed, also when two subscriptions
\* were created within the same millisecond.
C30_OneEntryPerLiveSubscription ==
    Cardinality({i \in SubIds : activeSubscriptions[i] # NoSubscriber})
        = Cardinality({u \in Subscribers : subPc[u] = "subscribed"})

\* C29 as claimed: with AQI_UPDATE_API_KEY set, a request whose x-api-key is
\* absent or different is answered 401 with success = false and gets neither
\* validated readings nor validation errors.
KeyMismatch == postReq.expectedKey # "" /\ postReq.apiKey # postReq.expectedKey
NothingDisclosed ==
    /\ ~postResp.success
    /\ postResp.validatedReadings = <<>> /\ postResp.errors = <<>>
    /\ postResp.error \in {"Unauthorized - Invalid API key", "Invalid JSON or server error"}
C29_KeyMismatchAnswered401 ==
    (postResp.status # 0 /\ KeyMismatch) => postResp.status = 401 /\ NothingDisclosed

\* C29: with AQI_UPDATE_API_KEY set, a request whose x-api-key is absent or
\* different is answered 401 when its body is JSON and 500 when it is not (the
\* body is parsed before the key is compared); either way success = false and
\* the response holds neither validated readings nor validation errors.
C29_KeyMismatchDisclosesNothing ==
    (postResp.status # 0 /\ KeyMismatch) =>
        /\ postResp.status = IF postReq.body.kind = "invalid" THEN 500 ELSE 401
        /\ NothingDisclosed

C29_Witness ==
    /\ postResp.status = 401 /\ KeyMismatch /\ postReq.apiKey = ""
    /\ postReq.body.kind = "batch" /\ Len(postReq.body.readings) = 2
    /\ postReq.body.readings[1] # Null /\ postReq.body.readings[1].aqi = Num(501)
    /\ postResp.errors = <<>>

----------------------------------------------------------------------------
(* Properties of the scraper.                                              *)

ScrapeReturned == scrapePc = "idle" /\ scrapeCalls > 0

\* C8: a scrapeAQIIn call made less than 5 minutes after a scrape stored its
\* result, with no clearScraperCache in between, returns the stored result and
\* launches no browser, creates no context and navigates no page.
C8_FreshCacheHitDoesNoBrowserWork ==
    (scrapeCalls > 0 /\ hitExpected) =>
        /\ scrapePc = "idle"
        /\ scrapeRet = lastStore.data
        /\ work = NoWork
        /\ thisAttempt = NoAttempt

C8_Witness ==
    /\ ScrapeReturned /\ hitExpected
    /\ clock - lastStore.at = CACHE_DURATION - 1
    /\ scrapeRet = lastStore.data /\ scrapeRet.delhiAqi = 312
    /\ work = NoWork

\* C9: an attempt that extracted delhiAqi = 0 never returns its value: it ends
\* as a failure, the next attempt is started while fewer than 3 were made, and
\* that attempt uses a context the failed one did not use; a call makes at most
\* 3 attempts and returns null when the third failed too.
AttemptFailed(a) == a.end \in {"continue", "catch"}
C9_ZeroIsRetriedAtMostThreeAttempts ==
    /\ attempt <= maxRetries /\ thisAttempt.n <= maxRetries
    /\ thisAttempt.aqi = 0 =>
          /\ thisAttempt.end # "return"
          /\ thisAttempt.end = "catch" =>
                \/ thisAttempt.n < maxRetries /\ scrapePc = "backoff"
                \/ thisAttempt.n = maxRetries /\ ScrapeReturned
          /\ thisAttempt.end = "continue" =>
                thisAttempt.n = maxRetries /\ ScrapeReturned
    /\ prevAttempt.aqi = 0 =>
          /\ AttemptFailed(prevAttempt)
          /\ thisAttempt.n = prevAttempt.n + 1
          /\ thisAttempt.ctx # 0 => thisAttempt.ctx # prevAttempt.ctx
    /\ scrapeRet # Null => scrapeRet.delhiAqi # 0
    /\ (ScrapeReturned /\ thisAttempt.n = maxRetries /\ AttemptFailed(thisAttempt))
          => scrapeRet = Null

C9_Witness ==
    /\ ScrapeReturned /\ scrapeRet = Null
    /\ thisAttempt.n = maxRetries /\ thisAttempt.aqi = 0
    /\ thisAttempt.end = "continue"
    /\ prevAttempt.n = maxRetries - 1 /\ prevAttempt.aqi = 0
    /\ thisAttempt.ctx # 0 /\ prevAttempt.ctx # 0
    /\ thisAttempt.ctx # prevAttempt.ctx

\* C10: after a scrapeAQIIn call that returned null on a cache miss, the cache
\* is what it was when the call was made.
C10_NullReturnLeavesCacheUntouched ==
    (ScrapeReturned /\ thisAttempt # NoAttempt /\ scrapeRet = Null) =>
        cachedScrapedData = cacheAtCall

\* C11: scrapeAQIIn never rejects or throws to its caller: a call whose last
\* attempt failed, by an exception or by a blocked or zero page, resolves
\* with null.
C11_ScrapeNeverRejects ==
    /\ scrapePc # "rejected"
    /\ (ScrapeReturned /\ thisAttempt # NoAttempt) =>
          \/ scrapeRet = Null /\ AttemptFailed(thisAttempt)
          \/ scrapeRet # Null /\ thisAttempt.end = "return"

C11_Witness ==
    /\ ScrapeReturned /\ scrapeRet = Null
    /\ thisAttempt.n = maxRetries /\ thisAttempt.end = "catch"
    /\ prevAttempt.end = "continue"

\* C20: every attempt after the first of a scrapeAQIIn call starts after the
\* backoff delay humanDelay(3000, 5000), whichever way the attempt before it
\* failed.
C20_BackoffBeforeEveryRetry ==
    /\ thisAttempt.n > 1 => thisAttempt.delayed
    /\ prevAttempt.n > 1 => prevAttempt.delayed

----------------------------------------------------------------------------
restInit == WeatherInit /\ SubInit /\ StatInit
restVars == <<weatherVars, subVars, statVars>>
otherInit == MetaRaceInit /\ restInit /\ OverlapInit
otherVars == <<metaFirst, restVars, overlapVars>>

vars == <<syncVars, metaVars, uiVars, batchVars, postVars, histVars, scrapeVars, otherVars>>

\* One write of a reading at a time: by the admin form, or by a direct caller.
InitSync ==
    /\ env \in Envs /\ SyncInit /\ MetaInit /\ UiInit
    /\ BatchInit /\ PostInit /\ HistInit /\ ScrapeInit /\ otherInit

notSync == <<batchVars, postVars, histVars, scrapeVars, otherVars>>

NextSync ==
    \/ (CallUpdateAQIData(UiCall) /\ UNCHANGED notSync)
    \/ (HandleSubmit /\ UNCHANGED notSync)
    \/ (metaGetDocResolve(UiMeta) /\ UNCHANGED <<syncVars, uiVars, notSync>>)
    \/ (metaSetDocResolve(UiMeta) /\ UNCHANGED <<syncVars, uiVars, notSync>>)
    \/ (metaReject(UiMeta) /\ UNCHANGED <<syncVars, uiVars, notSync>>)
    \/ (UiAfterMetadata /\ UNCHANGED notSync)
    \/ (UiSettle /\ UNCHANGED notSync)
    \/ (UiTimeout /\ UNCHANGED notSync)
    \/ (AddDocResolve(UiCall) /\ UNCHANGED <<metaVars, uiVars, notSync>>)
    \/ (AddDocReject(UiCall) /\ UNCHANGED <<metaVars, uiVars, notSync>>)
    \/ (DurableTimeout(UiCall) /\ UNCHANGED <<metaVars, uiVars, notSync>>)
    \/ (SetResolve(UiCall) /\ UNCHANGED <<metaVars, uiVars, notSync>>)
    \/ (SetReject(UiCall) /\ UNCHANGED <<metaVars, uiVars, notSync>>)
    \/ (SyncTimeout(UiCall) /\ UNCHANGED <<metaVars, uiVars, notSync>>)
    \/ (Tick /\ UNCHANGED notSync)

SpecSync == InitSync /\ [][NextSync]_vars

\* The same system under the scheduling node guarantees: time passes, and a timer
\* whose delay has elapsed runs its callback (setTimeout in withTimeout, in
\* syncToRealtimeDatabase and in handleSubmit; the continuation of a settled race).
\* Nothing makes addDoc or set() settle.
SyncFairness ==
    /\ WF_vars(Tick /\ UNCHANGED notSync)
    /\ WF_vars(DurableTimeout(UiCall) /\ UNCHANGED <<metaVars, uiVars, notSync>>)
    /\ WF_vars(SyncTimeout(UiCall) /\ UNCHANGED <<metaVars, uiVars, notSync>>)
    /\ WF_vars(UiTimeout /\ UNCHANGED notSync)
    /\ WF_vars(UiSettle /\ UNCHANGED notSync)

SpecSyncFair == InitSync /\ [][NextSync]_vars /\ SyncFairness

\* batchUpdateRealtimeDB against the live store
InitBatch ==
    /\ env \in {e \in Envs : e.window /\ e.projectId} /\ SyncInit /\ MetaInit /\ UiInit
    /\ BatchInit /\ PostInit /\ HistInit /\ ScrapeInit /\ otherInit

notBatch == <<env, now, callVars, readingsCol, nextId, metaVars, uiVars, postVars, histVars,
             scrapeVars, otherVars>>

NextBatch ==
    \/ (BatchUpdateRealtimeDB /\ UNCHANGED notBatch)
    \/ \E i \in 1..MaxBatch : (UpdateResolve(i) /\ UNCHANGED notBatch)
    \/ \E i \in 1..MaxBatch : (UpdateReject(i) /\ UNCHANGED notBatch)

SpecBatch == InitBatch /\ [][NextBatch]_vars

\* POST /api/firebase
InitPost ==
    /\ env = FullEnv /\ SyncInit /\ MetaInit /\ UiInit
    /\ BatchInit /\ PostInit /\ HistInit /\ ScrapeInit /\ otherInit

NextPost ==
    POST /\ UNCHANGED <<env, now, callVars, nextId, metaPc, metaArg, metaResult,
                        uiVars, batchVars, histVars, scrapeVars, otherVars>>

SpecPost == InitPost /\ [][NextPost]_vars

\* GET of the historical series
InitHist ==
    /\ env = FullEnv /\ SyncInit /\ MetaInit /\ UiInit
    /\ BatchInit /\ PostInit /\ HistInit /\ ScrapeInit /\ otherInit

NextHist ==
    GetHistorical /\ UNCHANGED <<syncVars, metaVars, uiVars, batchVars, postVars,
                                 scrapeVars, otherVars>>

SpecHist == InitHist /\ [][NextHist]_vars

\* scrapeAQIIn, called one call after another
InitScraper ==
    /\ env = FullEnv /\ SyncInit /\ MetaInit /\ UiInit
    /\ BatchInit /\ PostInit /\ HistInit /\ ScrapeInit /\ otherInit

notScraper == <<syncVars, metaVars, uiVars, batchVars, postVars, histVars, otherVars>>

NextScraper ==
    \/ (ScrapeAQIIn /\ UNCHANGED notScraper)
    \/ (GetBrowserReuse /\ UNCHANGED notScraper)
    \/ (GetBrowserLaunch /\ UNCHANGED notScraper)
    \/ (LaunchResolve /\ UNCHANGED notScraper)
    \/ (NewContext /\ UNCHANGED notScraper)
    \/ (NewPage /\ UNCHANGED notScraper)
    \/ (Goto /\ UNCHANGED notScraper)
    \/ (CfCleared /\ UNCHANGED notScraper)
    \/ (CfChallenge /\ UNCHANGED notScraper)
    \/ (CfTimeout /\ UNCHANGED notScraper)
    \/ (Evaluate /\ UNCHANGED notScraper)
    \/ (PageClose /\ UNCHANGED notScraper)
    \/ (ContextClose /\ UNCHANGED notScraper)
    \/ (Throw /\ UNCHANGED notScraper)
    \/ (Backoff /\ UNCHANGED notScraper)
    \/ (closeBrowser /\ UNCHANGED notScraper)
    \/ (clearScraperCache /\ UNCHANGED notScraper)
    \/ (BrowserDisconnect /\ UNCHANGED notScraper)
    \/ (ClockTick /\ UNCHANGED notScraper)

SpecScraper == InitScraper /\ [][NextScraper]_vars

\* saveStationMetadata, called twice for one station
InitMeta ==
    /\ env = FullEnv /\ SyncInit /\ MetaInit /\ UiInit
    /\ BatchInit /\ PostInit /\ HistInit /\ ScrapeInit /\ otherInit

notMeta == <<env, callVars, readingsCol, rtdb, nextId, uiVars, batchVars, postVars, histVars,
            scrapeVars, restVars, overlapVars>>

NextMeta ==
    \/ \E m \in MetaCalls : (CallSaveStationMetadata(m) /\ UNCHANGED <<now, notMeta>>)
    \/ \E m \in MetaCalls : (MetaGetDoc(m) /\ UNCHANGED <<now, notMeta>>)
    \/ \E m \in MetaCalls : (MetaSetDoc(m) /\ UNCHANGED <<now, notMeta>>)
    \/ \E m \in MetaCalls : (MetaReject(m) /\ UNCHANGED <<now, notMeta>>)
    \/ (MetaTick /\ UNCHANGED notMeta)

SpecMeta == InitMeta /\ [][NextMeta]_vars

\* updateAQIData, called twice for one station
InitRace ==
    /\ env = FullEnv /\ SyncInit /\ MetaInit /\ UiInit
    /\ BatchInit /\ PostInit /\ HistInit /\ ScrapeInit /\ otherInit

notRace == <<metaVars, uiVars, batchVars, postVars, histVars, scrapeVars, otherVars>>

NextRace ==
    \/ \E c \in Calls : (CallForStation(c) /\ UNCHANGED notRace)
    \/ \E c \in Calls : (AddDocResolve(c) /\ UNCHANGED notRace)
    \/ \E c \in Calls : (AddDocReject(c) /\ UNCHANGED notRace)
    \/ \E c \in Calls : (DurableTimeout(c) /\ UNCHANGED notRace)
    \/ \E c \in Calls : (SetResolve(c) /\ UNCHANGED notRace)
    \/ \E c \in Calls : (SetReject(c) /\ UNCHANGED notRace)
    \/ \E c \in Calls : (SyncTimeout(c) /\ UNCHANGED notRace)
    \/ (Tick /\ UNCHANGED <<batchVars, postVars, histVars, scrapeVars, otherVars>>)

SpecRace == InitRace /\ [][NextRace]_vars

\* GET /api/weather, one request
InitWeather ==
    /\ env = FullEnv /\ SyncInit /\ MetaInit /\ UiInit
    /\ BatchInit /\ PostInit /\ HistInit /\ ScrapeInit /\ otherInit

notWeather == <<syncVars, metaVars, uiVars, batchVars, postVars, histVars, scrapeVars,
               metaFirst, subVars, statVars, overlapVars>>

NextWeather ==
    \/ (GetWeather /\ UNCHANGED notWeather)
    \/ (AccuFetchRejects /\ UNCHANGED notWeather)
    \/ (AccuResponse /\ UNCHANGED notWeather)
    \/ (AccuJson /\ UNCHANGED notWeather)
    \/ (WaqiReturns /\ UNCHANGED notWeather)
    \/ (WaqiThrows /\ UNCHANGED notWeather)
    \/ (ScrapedReturns /\ UNCHANGED notWeather)
    \/ (ScrapedThrows /\ UNCHANGED notWeather)

SpecWeather == InitWeather /\ [][NextWeather]_vars

\* subscribers of the live store
InitSub ==
    /\ env \in {FullEnv, [FullEnv EXCEPT !.window = FALSE]} /\ SyncInit /\ MetaInit /\ UiInit
    /\ BatchInit /\ PostInit /\ HistInit /\ ScrapeInit
    /\ MetaRaceInit /\ WeatherInit /\ StatInit /\ OverlapInit
    /\ stations \in [LiveKeys -> LiveValues] /\ SubIdle

notSub == <<syncVars, metaVars, uiVars, batchVars, postVars, histVars, scrapeVars,
           metaFirst, weatherVars, statVars, overlapVars>>

NextSub ==
    \/ \E u \in Subscribers : (subscribeToAQIData(u) /\ UNCHANGED notSub)
    \/ \E u \in Subscribers : (InitialValue(u) /\ UNCHANGED notSub)
    \/ (StationsChange /\ UNCHANGED notSub)
    \/ \E u \in Subscribers : (unsubscribe(u) /\ UNCHANGED notSub)
    \/ \E u \in Subscribers : (unsubscribeNoop(u) /\ UNCHANGED notSub)
    \/ (SubTick /\ UNCHANGED notSub)

SpecSub == InitSub /\ [][NextSub]_vars

\* getStationStats over a station's history
InitStats ==
    /\ env \in {FullEnv, [FullEnv EXCEPT !.window = FALSE], [FullEnv EXCEPT !.apiKey = FALSE]}
    /\ SyncInit /\ MetaInit /\ UiInit
    /\ BatchInit /\ PostInit /\ HistInit /\ ScrapeInit
    /\ MetaRaceInit /\ WeatherInit /\ SubInit /\ OverlapInit
    /\ statReadings \in StatHistories /\ StatIdle

notStats == <<syncVars, metaVars, uiVars, batchVars, postVars, histVars, scrapeVars,
             metaFirst, weatherVars, subVars, overlapVars>>

NextStats ==
    \/ (GetStationStats /\ UNCHANGED notStats)
    \/ (StatsQueryResolves /\ UNCHANGED notStats)
    \/ (StatsQueryRejects /\ UNCHANGED notStats)

SpecStats == InitStats /\ [][NextStats]_vars

\* two scrapeAQIIn calls made while the cache is empty and no browser is held
InitOverlap ==
    /\ env = FullEnv /\ SyncInit /\ MetaInit /\ UiInit
    /\ BatchInit /\ PostInit /\ HistInit /\ ScrapeInit /\ otherInit

notOverlap == <<syncVars, metaVars, uiVars, batchVars, postVars, histVars, metaFirst, restVars>>

NextOverlap ==
    \/ \E k \in Scrapers : (ScrapeAQIInOf(k) /\ UNCHANGED notOverlap)
    \/ \E k \in Scrapers : (getBrowser(k) /\ UNCHANGED notOverlap)
    \/ \E k \in Scrapers : (launchResolve(k) /\ UNCHANGED notOverlap)
    \/ \E k \in Scrapers : (newContextOf(k) /\ UNCHANGED notOverlap)
    \/ \E k \in Scrapers : (gotoOf(k) /\ UNCHANGED notOverlap)
    \/ \E k \in Scrapers : (evaluateOf(k) /\ UNCHANGED notOverlap)

SpecOverlap == InitOverlap /\ [][NextOverlap]_vars

====
